---- MODULE Spec2Model ----
(***************************************************************************)
(* Drift-Shield serving control plane.                                     *)
(*                                                                         *)
(* SpecBundle : BundleManager.get_active (modeling/predict.py), the        *)
(*              pointer reader _read_pointer, the pointer writer           *)
(*              registry._write_pointer / io.save_json, and the part of    *)
(*              the HTTP layer (api/main.py lifespan, /predict) that       *)
(*              turns the manager's outcome into a status code.            *)
(* SpecEmit   : RetrainEmitter.emit (drift/emitter.py) called by           *)
(*              concurrent request threads, and the retrain worker's       *)
(*              consumption of the queue directory (scripts/watcher.py).   *)
(*                                                                         *)
(* Each specification leaves the other one's variables at their initial    *)
(* values.                                                                 *)
(***************************************************************************)
EXTENDS Naturals, Integers, Sequences, FiniteSets, TLC

VARIABLES
    \* ---- file system seen by the bundle manager
    activePtr,        \* content of ACTIVE_MODEL.json
    versionsOk,       \* versions whose directory holds every artifact
    writerPc,         \* save_json on the ACTIVE pointer: "idle" | "opened"
    writerOld,        \* content of the file when save_json opened it
    writerNew,        \* content save_json is writing
    \* ---- BundleManager
    _active_version,
    _active_bundle,
    lockHolder,       \* BundleManager._lock: NoHolder, or the caller inside
    loadCount,        \* number of ModelBundle objects constructed so far
    lastLoaded,       \* version of the most recent successful load
    \* ---- callers of get_active (Lifespan, and the /predict threads)
    pc,               \* per caller: "idle" | "read" | "load"
    \* ---- the call inside the lock, or the last one that left it
    attempt,          \* loop variable of _read_pointer
    ver,              \* local `version` of get_active
    pre,              \* cached pair when the call took the lock
    seen,             \* what the call's last read of the pointer found
    ret,              \* outcome of the call
    \* ---- api/main.py
    phase,            \* "booting" | "ready" | "failed"  (app.state)
    http,             \* the response of the last /predict request
    \* ---- the queue directory of the retrain emitter
    clock,            \* time.time(), in whole seconds
    marker,           \* mtime of .last_emit, NoTime when the file is absent
    tmpFile,          \* retrain_request_<ts>.json.tmp : the inode it names
    reqFile,          \* retrain_request_<ts>.json     : the inode it names
    full,             \* inodes holding the complete JSON payload
    \* ---- RetrainEmitter.emit, per calling thread
    ePc,              \* position in emit
    eNow,             \* local `now`
    eFd,              \* inode opened by tmp.write_text
    \* ---- history of the emitter
    eRet,             \* per thread: what its last emit call returned, and where
    lastOk,           \* `now` of the last emit that returned True
    closePair,        \* an emit returned True less than the cooldown after
                      \* the emit that returned True before it
    overlap,          \* two emit calls have been in progress at once
    \* ---- scripts/watcher.py main loop
    wPc,              \* "idle" | "handling"
    wReqs,            \* local `reqs`
    \* ---- drift/detector.py: DriftDetector of the active bundle
    window_size,
    stride,
    _buf,             \* the rows of the window, oldest first
    _since_last,
    _last_score,
    _last_top,        \* _last_top, _last_soft_count and _last_hard_count
    \* ---- history of the detector
    dOut,             \* the dict the last update_and_score call returned
    ingested,         \* number of update_and_score calls so far
    rowsSince,        \* calls since the last one that returned updated=True
    \* ---- a call of a function of api/: decide_action or _schema_check
    args,             \* its arguments
    result,           \* what it returned, NotCalled before the call
    \* ---- drift/retrain.py: RetrainTrigger
    required_hard_windows,
    _hard_hits,
    trig,             \* the dict the last on_drift_update call returned
    tHist,            \* the calls of on_drift_update made so far, in order
    \* ---- api/main.py: the /predict handler, per request thread
    rPc,              \* "idle" | "emitting"
    rHeld,            \* the response the handler will build after emit
    \* ---- history of /predict
    lastReq,          \* the last request to arrive, and its schema verdict
    lastResp,         \* the last response sent, and what its request ran
    hardWindows,      \* recomputed windows with drift_score >= hard_thr since
                      \* the last recomputed window below it or the last trigger
    created,          \* `now` of the emits of /predict that returned True
    queued,           \* `now` of the emits of /retrain that returned True
    \* ---- update_and_score, per calling thread
    uPc,              \* position in update_and_score
    uLoc,             \* values the thread has read and not yet written back
    \* ---- history of the calls made by several threads
    appended,         \* the rows appended to the buffer, in order of append
    recomputes,       \* number of recomputations so far
    \* ---- scripts/watcher.py: configuration and clock of the worker
    wcfg,             \* retrain.cooldown_seconds, promote.cooldown_seconds,
                      \* promote.auto_promote; times in half seconds
    wclock,           \* time.time() of the worker, in half seconds
    \* ---- the files of the worker
    arrived,          \* number of request files the emitter has added
    requests_dir,     \* names of the pending retrain_request_*.json files
    processed_dir,    \* names under processed/
    failed_dir,       \* names under failed/
    reports,          \* versions with a retrain_candidate_<version>.json
    ptr,              \* ACTIVE, SHADOW and ROLLBACK pointer files
    last_retrain,     \* ts of last_retrain.json
    last_promotion,   \* ts and active_version of last_promotion.json
    trained,          \* number of versions train_and_save has saved
    \* ---- main loop of the worker
    loopPc,           \* "list" | "cooldown" | "handle" | "drop"
    reqs,             \* local `reqs`
    \* ---- history of the worker
    iter,             \* what the current iteration has seen and done
    lastProm,         \* the last promotion: when, from which version, to which
    \* ---- BundleManager: the shadow bundle
    _shadow_version,
    _shadow_bundle,
    shadowRows,       \* rows the detector of the shadow bundle has taken
    \* ---- api/metrics.py
    SHADOW_RUNS,
    SHADOW_DISAGREE,
    \* ---- two runs of the server on one sequence of requests
    serverRun,        \* "shadowed" | "plain": the process that is running
    sent,             \* the requests sent to the first process, in order
    obsShadowed,      \* what each of them left behind in the first process
    obsPlain,         \* and in the second, started with no shadow configured
    casesSeen,        \* what the shadow blocks of the first process did
    \* ---- history of the runs of scripts/promote.py --rollback
    rbk,              \* the last run, and the pair of pointers it started from
    \* ---- on_drift_update, per calling thread
    hPc,              \* position in on_drift_update
    hLoc,             \* values the thread has read and not yet used
    hDone,            \* the calls so far: how many, how many hard, how many
                      \* returned triggered=true
    \* ---- api/main.py: readiness
    readySet,         \* the last value /ready assigned to app.state.ready
    probe             \* the last answer of /health, /ready, /retrain or
                      \* /models/info

bundleVars == <<activePtr, versionsOk, writerPc, writerOld, writerNew,
                _active_version, _active_bundle, lockHolder, loadCount,
                lastLoaded, pc, attempt, ver, pre, seen, ret, phase, http>>

emitVars == <<clock, marker, tmpFile, reqFile, full, ePc, eNow, eFd, eRet,
              lastOk, closePair, overlap, wPc, wReqs>>

driftVars == <<window_size, stride, _buf, _since_last, _last_score, _last_top,
               dOut, ingested, rowsSince>>

callVars == <<args, result>>

triggerVars == <<required_hard_windows, _hard_hits, trig, tHist>>

serveVars == <<rPc, rHeld, lastReq, lastResp, hardWindows, created, queued>>

raceVars == <<uPc, uLoc, appended, recomputes>>

workerVars == <<wcfg, wclock, arrived, requests_dir, processed_dir, failed_dir, reports,
                ptr, last_retrain, last_promotion, trained, loopPc, reqs, iter,
                lastProm>>

shadowVars == <<_shadow_version, _shadow_bundle, shadowRows, SHADOW_RUNS,
                SHADOW_DISAGREE, serverRun, sent, obsShadowed, obsPlain, casesSeen>>

scriptVars == <<rbk>>

hitVars == <<hPc, hLoc, hDone>>

startVars == <<readySet, probe>>

\* the parts added last
moreVars == <<scriptVars, hitVars, startVars>>

\* the parts that only their own specification moves
restVars == <<raceVars, workerVars, shadowVars, moreVars>>

\* what the steps of one part of the service leave alone
outsideBundle  == <<emitVars, driftVars, callVars, triggerVars, serveVars, restVars>>
outsideEmit    == <<bundleVars, driftVars, callVars, triggerVars, serveVars, restVars>>
outsideDrift   == <<bundleVars, emitVars, callVars, triggerVars, serveVars, restVars>>
outsideCall    == <<bundleVars, emitVars, driftVars, triggerVars, serveVars, restVars>>
outsideTrigger == <<bundleVars, emitVars, driftVars, callVars, serveVars, restVars>>
outsideRace    == <<bundleVars, emitVars, callVars, triggerVars, serveVars,
                    workerVars, shadowVars, moreVars>>
outsideWorker  == <<bundleVars, emitVars, driftVars, callVars, triggerVars,
                    serveVars, raceVars, shadowVars, moreVars>>

vars == <<bundleVars, emitVars, driftVars, callVars, triggerVars, serveVars,
          restVars>>

-----------------------------------------------------------------------------
(* Bounds *)

NumThreads == 2      \* concurrent /predict request threads
MaxLoads   == 3      \* ModelBundle objects constructed in one run
NumEmitters == 2     \* threads that may be inside emit at once
MaxTime    == 3      \* the clock stops here
MaxRows    == 210    \* rows fed to one detector
MaxCalls   == 6      \* calls of on_drift_update on one trigger
CooldownSecs == 2    \* cooldown_seconds of the emitter

-----------------------------------------------------------------------------
(* Strings are sequences of characters; " " stands for any whitespace. *)

\* version ids the trainer produces (utc tags): no whitespace
Versions == {<<"a">>, <<"b">>}

\* values found under the key of a pointer file
RawValues == {<<>>, <<" ">>, <<"a">>, <<"b">>, <<" ", "a">>, <<"b", " ">>}

NoVersion == <<>>                                   \* Python None
NoBundle  == [model_version |-> <<>>, id |-> 0]     \* Python None

\* str.strip()
RECURSIVE LStrip(_)
LStrip(s) == IF s # <<>> /\ Head(s) = " " THEN LStrip(Tail(s)) ELSE s

RECURSIVE RStrip(_)
RStrip(s) == IF s # <<>> /\ s[Len(s)] = " " THEN RStrip(SubSeq(s, 1, Len(s) - 1)) ELSE s

Strip(s) == RStrip(LStrip(s))

-----------------------------------------------------------------------------
(* Pointer file contents.                                                  *)
(*   absent     the file does not exist                                    *)
(*   unreadable read_text raises OSError                                   *)
(*   empty      zero bytes                                                 *)
(*   garbage    bytes json.loads rejects                                   *)
(*   nonobject  valid JSON that is not an object ([], null, 3, "x")        *)
(*   nokey      a JSON object without the key, or with the key null        *)
(*   object     a JSON object {key: value}                                 *)

File(k, v) == [kind |-> k, value |-> v]

NoFile == File("absent", <<>>)

PointerContents ==
    {File(k, <<>>) : k \in {"absent", "unreadable", "empty", "garbage", "nonobject", "nokey"}}
    \cup {File("object", v) : v \in RawValues}

Lifespan == 0
Threads  == 1 .. NumThreads
Callers  == {Lifespan} \cup Threads
NoHolder == -1

NoCall == [outcome |-> "none", bundle |-> NoBundle, loadTried |-> FALSE, loadOk |-> FALSE]
NoPair == [version |-> NoVersion, bundle |-> NoBundle]
NoSeen == [content |-> NoFile, torn |-> FALSE]
NoHttp == [status |-> 0, model_version |-> NoVersion, cause |-> "none"]

-----------------------------------------------------------------------------
(* drift/emitter.py and scripts/watcher.py: names and helpers *)

max_pending == 1

NoTime  == -1
NoInode == 0

EThreads == 1 .. NumEmitters
NoReturn == [value |-> "none", at |-> "none"]
Seconds  == 0 .. MaxTime
InodeIds == 1 .. (2 * Cardinality(Seconds) + NumEmitters)

\* the emitter and the worker before their first step
EmitIdle ==
    /\ clock = 0
    /\ marker = NoTime
    /\ tmpFile = [s \in Seconds |-> NoInode]
    /\ reqFile = [s \in Seconds |-> NoInode]
    /\ full = {}
    /\ ePc = [t \in EThreads |-> "idle"]
    /\ eNow = [t \in EThreads |-> 0]
    /\ eFd = [t \in EThreads |-> NoInode]
    /\ eRet = [t \in EThreads |-> NoReturn]
    /\ lastOk = NoTime
    /\ closePair = FALSE
    /\ overlap = FALSE
    /\ wPc = "idle"
    /\ wReqs = {}

\* the bundle manager before its first call
BundleIdle ==
    /\ writerPc = "idle"
    /\ writerOld = NoFile
    /\ writerNew = NoFile
    /\ _active_version = NoVersion
    /\ _active_bundle = NoBundle
    /\ lockHolder = NoHolder
    /\ loadCount = 0
    /\ lastLoaded = NoVersion
    /\ pc = [t \in Callers |-> "idle"]
    /\ attempt = 0
    /\ ver = NoVersion
    /\ pre = NoPair
    /\ seen = NoSeen
    /\ ret = NoCall
    /\ phase = "booting"
    /\ http = NoHttp

-----------------------------------------------------------------------------
(* drift/detector.py: names and helpers *)

WarmupRows == 100
PSI_WEIGHT == 7      \* in tenths
KS_WEIGHT  == 3      \* in tenths
One        == 2      \* the value 1.0 of psi_score and ks_flag_frac, in halves
ScoreOne   == (PSI_WEIGHT + KS_WEIGHT) * One   \* the value 1.0 of drift_score

\* configurations of drift.window_size and drift.stride
WindowSizes == {0, 2, 100, 103}
Strides     == {1, 3, 102}

\* results of the window statistics before they are clipped
RawPsi == -1 .. (One + 1)
RawKs  == {0, One}
\* what a recomputation finds besides the score: top features and the counts
\* of soft and hard features, as one value
NoTop == 0
Tops  == {1, 2}

\* the dict returned before the first call
NoResult == [drift_score |-> 0, top |-> NoTop, updated |-> FALSE, branch |-> "none"]

\* a detector that was never called, as from_reference builds it
DriftNew ==
    /\ _buf = <<>>
    /\ _since_last = 0
    /\ _last_score = 0
    /\ _last_top = NoTop
    /\ dOut = NoResult
    /\ ingested = 0
    /\ rowsSince = 0

\* the detector where it plays no part
DriftIdle == window_size = 0 /\ stride = 0 /\ DriftNew

\* a trigger that was never called
NoTrig == [triggered |-> FALSE, reason |-> 0]
TriggerNew == _hard_hits = 0 /\ trig = NoTrig /\ tHist = <<>>

\* the trigger where it plays no part
TriggerIdle == required_hard_windows = 0 /\ TriggerNew

\* the /predict handler before its first request
NoPrediction == "null"
NoRequest  == [seq |-> 0, schema |-> "none", reasons |-> <<>>, triggered |-> FALSE,
               windows |-> 0]
NoResponse == [status |-> 0]
NotHeld    == [status |-> 0]
NothingRead == [since |-> 0, slice |-> <<>>]

RaceIdle ==
    /\ uPc = [t \in EThreads |-> "idle"]
    /\ uLoc = [t \in EThreads |-> NothingRead]
    /\ appended = <<>>
    /\ recomputes = 0

NoPointer   == 0     \* a pointer file that is absent, or Python None
TornPointer == -1    \* a pointer file that does not parse
NoStamp     == -1    \* a stamp file that is absent
TornStamp   == -2    \* a stamp file that does not parse

NoIteration ==
    [listed |-> {}, inCooldown |-> FALSE, handled |-> 0, raised |-> FALSE,
     gate |-> "none", promoted |-> FALSE, cand |-> NoPointer, cost |-> 0]

NoPromotion == [n |-> 0, ts |-> 0, from |-> NoPointer, to |-> NoPointer, close |-> FALSE]

\* the loop before its first iteration, whatever the files are
WorkerNew ==
    /\ loopPc = "list"
    /\ reqs = {}
    /\ iter = NoIteration
    /\ lastProm = NoPromotion
    /\ wclock = 0
    /\ trained = 0

WorkerIdle ==
    /\ WorkerNew
    /\ wcfg = [retrain_cooldown |-> 0, promote_cooldown |-> 0, auto_promote |-> FALSE]
    /\ arrived = 0
    /\ requests_dir = {}
    /\ processed_dir = {}
    /\ failed_dir = {}
    /\ reports = {}
    /\ ptr = [active |-> NoPointer, shadow |-> NoPointer, rollback |-> NoPointer]
    /\ last_retrain = NoStamp
    /\ last_promotion = [ts |-> NoStamp, active_version |-> NoPointer]

\* no shadow bundle has been loaded, and one process has served nothing
ShadowIdle ==
    /\ _shadow_version = NoVersion
    /\ _shadow_bundle = NoBundle
    /\ shadowRows = 0
    /\ SHADOW_RUNS = 0
    /\ SHADOW_DISAGREE = 0
    /\ serverRun = "shadowed"
    /\ sent = <<>>
    /\ obsShadowed = <<>>
    /\ obsPlain = <<>>
    /\ casesSeen = {}

\* promote.py has not been run
NoScriptRun ==
    [total |-> 0, exit |-> "none", at |-> 0, runs |-> 0,
     start |-> [active |-> NoPointer, rollback |-> NoPointer]]

ScriptIdle == rbk = NoScriptRun

NoHitsRead == [hits |-> 0, reason |-> 0]

NoCalls == [calls |-> 0, hard |-> 0, triggered |-> 0, low |-> FALSE]

HitsIdle ==
    /\ hPc = [t \in EThreads |-> "idle"]
    /\ hLoc = [t \in EThreads |-> NoHitsRead]
    /\ hDone = NoCalls

NoProbe == [endpoint |-> "none", status |-> 0, ready |-> FALSE]

StartIdle == readySet = "none" /\ probe = NoProbe

MoreIdle == ScriptIdle /\ HitsIdle /\ StartIdle

RestIdle == RaceIdle /\ WorkerIdle /\ ShadowIdle /\ MoreIdle

ServeIdle ==
    /\ rPc = [t \in EThreads |-> "idle"]
    /\ rHeld = [t \in EThreads |-> NotHeld]
    /\ lastReq = NoRequest
    /\ lastResp = NoResponse
    /\ hardWindows = 0
    /\ created = {}
    /\ queued = {}

\* no function of api/ is being called
NoArgs    == [fn |-> "none"]
NotCalled == [fn |-> "none"]
CallIdle  == args = NoArgs /\ result = NotCalled

-----------------------------------------------------------------------------
InitBundle ==
    /\ ServeIdle /\ RestIdle
    /\ DriftIdle
    /\ CallIdle
    /\ TriggerIdle
    /\ EmitIdle
    /\ BundleIdle
    /\ activePtr \in {NoFile, File("object", <<"a">>)}
    /\ versionsOk \in {{}, {<<"a">>}}

-----------------------------------------------------------------------------
(* modeling/predict.py *)

Retries == 3

\* One iteration of the loop of _read_pointer on file content c:
\* "value" (return, version NoVersion for None), "retry" (sleep, continue)
\* or "raise" (data.get on a non-dict: AttributeError, caught nowhere).
PointerAttempt(c, a) ==
    CASE c.kind = "absent" -> [res |-> "value", version |-> NoVersion]
      [] c.kind \in {"unreadable", "empty", "garbage"} ->
            IF a < Retries - 1
            THEN [res |-> "retry", version |-> NoVersion]
            ELSE [res |-> "value", version |-> NoVersion]
      [] c.kind = "nonobject" -> [res |-> "raise", version |-> NoVersion]
      [] c.kind = "nokey" -> [res |-> "value", version |-> NoVersion]
      [] OTHER -> [res |-> "value", version |-> Strip(c.value)]

\* _load_versioned_bundle: raises unless the version directory holds every
\* artifact; otherwise a fresh ModelBundle (object number id).
LoadVersionedBundle(version, dirs, id) ==
    IF version \in dirs
    THEN [ok |-> TRUE, bundle |-> [model_version |-> version, id |-> id]]
    ELSE [ok |-> FALSE, bundle |-> NoBundle]

\* OnInvalidPointer without the `raise RuntimeError`: None is returned
OnInvalidPointer_ReturnsNone(cached) == [outcome |-> "bundle", bundle |-> cached]

\* get_active, `if not version:` branch
OnInvalidPointer(cached) ==
    IF cached # NoBundle
    THEN [outcome |-> "bundle", bundle |-> cached]
    ELSE [outcome |-> "raise", bundle |-> NoBundle]

\* IsCachedVersion without the comparison of versions
IsCachedVersion_AnyBundle(cachedBundle, cachedVersion, version) == cachedBundle # NoBundle

\* get_active, `if self._active_bundle and self._active_version == version`
IsCachedVersion(cachedBundle, cachedVersion, version) ==
    cachedBundle # NoBundle /\ cachedVersion = version

\* OnLoadFailure re-raising whatever is cached
OnLoadFailure_Reraises(cached) == [outcome |-> "raise", bundle |-> NoBundle]

\* get_active, `except Exception` around the load
OnLoadFailure(cached) ==
    IF cached # NoBundle
    THEN [outcome |-> "bundle", bundle |-> cached]
    ELSE [outcome |-> "raise", bundle |-> NoBundle]

\* SwapTo without `self._active_version = version`
SwapTo_BundleOnly(bundle, version) == [version |-> _active_version, bundle |-> bundle]

\* get_active, the two assignments after a successful load
SwapTo(bundle, version) == [version |-> version, bundle |-> bundle]

-----------------------------------------------------------------------------
(* api/main.py: what the caller makes of get_active's outcome.  The        *)
(* lifespan publishes the manager only when its warm-up call returned;     *)
(* /predict answers 503 when get_active raises, else 200 with the bundle's *)
(* version, or 500 when predict_one raises.                                *)

PredictResponse(outcome, bundle, predOk) ==
    IF outcome # "bundle"
    THEN [status |-> 503, model_version |-> NoVersion, cause |-> "get_active"]
    ELSE IF predOk
         THEN [status |-> 200, model_version |-> bundle.model_version, cause |-> "none"]
         ELSE [status |-> 500, model_version |-> NoVersion, cause |-> "predict_one"]

\* The end of a get_active call: `with self._lock` is left, by return or by
\* an exception, and the caller goes on.
Finish(t, outcome, bundle, tried, ok, predOk) ==
    /\ ret' = [outcome |-> outcome, bundle |-> bundle, loadTried |-> tried, loadOk |-> ok]
    /\ lockHolder' = NoHolder
    /\ pc' = [pc EXCEPT ![t] = "idle"]
    /\ attempt' = 0
    /\ IF t = Lifespan
       THEN /\ phase' = IF outcome = "bundle" THEN "ready" ELSE "failed"
            /\ http' = http
       ELSE /\ phase' = phase
            /\ http' = PredictResponse(outcome, bundle, predOk)

\* a lock that is never held
LockFree_Unguarded(holder) == TRUE

\* `with self._lock:` blocks while another caller is inside
LockFree(holder) == holder = NoHolder

\* `with self._lock:` entered
Acquire(t) ==
    /\ pc[t] = "idle"
    /\ LockFree(lockHolder)
    /\ loadCount < MaxLoads
    /\ lockHolder' = t
    /\ pc' = [pc EXCEPT ![t] = "read"]
    /\ attempt' = 0
    /\ ver' = NoVersion
    /\ pre' = [version |-> _active_version, bundle |-> _active_bundle]
    /\ seen' = NoSeen
    /\ ret' = NoCall
    /\ http' = NoHttp

\* lifespan: manager.get_active() at startup
Startup ==
    /\ UNCHANGED outsideBundle
    /\ phase = "booting"
    /\ Acquire(Lifespan)
    /\ UNCHANGED <<activePtr, versionsOk, writerPc, writerOld, writerNew,
                   _active_version, _active_bundle, loadCount, lastLoaded, phase>>

\* /predict: _require_runtime found the manager, get_active is entered
PredictBegin(t) ==
    /\ UNCHANGED outsideBundle
    /\ phase = "ready"
    /\ Acquire(t)
    /\ UNCHANGED <<activePtr, versionsOk, writerPc, writerOld, writerNew,
                   _active_version, _active_bundle, loadCount, lastLoaded, phase>>

\* /predict: _require_runtime finds no manager (bootstrap failed): 503
PredictNoRuntime(t) ==
    /\ UNCHANGED outsideBundle
    /\ phase = "failed"
    /\ pc[t] = "idle"
    /\ http' = [status |-> 503, model_version |-> NoVersion, cause |-> "bootstrap"]
    /\ http' # http
    /\ UNCHANGED <<activePtr, versionsOk, writerPc, writerOld, writerNew,
                   _active_version, _active_bundle, lockHolder, loadCount, lastLoaded,
                   pc, attempt, ver, pre, seen, ret, phase>>

\* What this read of the pointer file observed; torn: save_json was between
\* its open and its close, and the content read is neither the complete old
\* content nor the complete new one.
Observed ==
    [content |-> activePtr,
     torn |-> writerPc = "opened" /\ activePtr \notin {writerOld, writerNew}]

\* get_active: one iteration of _read_pointer and, once it returned, the
\* branches of get_active up to the load.
ReadPointer(t) ==
    /\ UNCHANGED outsideBundle
    /\ pc[t] = "read"
    /\ seen' = Observed
    /\ LET r == PointerAttempt(activePtr, attempt) IN
       \/ /\ r.res = "retry"
          /\ attempt' = attempt + 1
          /\ UNCHANGED <<_active_version, _active_bundle, lockHolder, pc, ver, ret,
                         phase, http>>
       \/ /\ r.res = "raise"
          /\ UNCHANGED <<_active_version, _active_bundle, ver>>
          /\ Finish(t, "raise", NoBundle, FALSE, FALSE, FALSE)
       \/ /\ r.res = "value"
          /\ r.version = NoVersion
          /\ UNCHANGED <<_active_version, _active_bundle, ver>>
          /\ LET o == OnInvalidPointer(_active_bundle) IN
             \E predOk \in BOOLEAN : Finish(t, o.outcome, o.bundle, FALSE, FALSE, predOk)
       \/ /\ r.res = "value"
          /\ r.version # NoVersion
          /\ IsCachedVersion(_active_bundle, _active_version, r.version)
          /\ UNCHANGED <<_active_version, _active_bundle>>
          /\ ver' = r.version
          /\ \E predOk \in BOOLEAN : Finish(t, "bundle", _active_bundle, FALSE, FALSE, predOk)
       \/ /\ r.res = "value"
          /\ r.version # NoVersion
          /\ ~IsCachedVersion(_active_bundle, _active_version, r.version)
          /\ pc' = [pc EXCEPT ![t] = "load"]
          /\ ver' = r.version
          /\ UNCHANGED <<_active_version, _active_bundle, lockHolder, attempt, ret,
                         phase, http>>
    /\ UNCHANGED <<activePtr, versionsOk, writerPc, writerOld, writerNew,
                   loadCount, lastLoaded, pre>>

\* get_active: _load_versioned_bundle and what follows it
LoadBundle(t) ==
    /\ UNCHANGED outsideBundle
    /\ pc[t] = "load"
    /\ LET l == LoadVersionedBundle(ver, versionsOk, loadCount + 1) IN
       \/ /\ l.ok
          /\ LET s == SwapTo(l.bundle, ver) IN
             /\ _active_bundle' = s.bundle
             /\ _active_version' = s.version
          /\ loadCount' = loadCount + 1
          /\ lastLoaded' = ver
          /\ \E predOk \in BOOLEAN : Finish(t, "bundle", l.bundle, TRUE, TRUE, predOk)
       \/ /\ ~l.ok
          /\ UNCHANGED <<_active_version, _active_bundle, loadCount, lastLoaded>>
          /\ LET o == OnLoadFailure(_active_bundle) IN
             \E predOk \in BOOLEAN : Finish(t, o.outcome, o.bundle, TRUE, FALSE, predOk)
    /\ UNCHANGED <<activePtr, versionsOk, writerPc, writerOld, writerNew, ver, pre, seen>>

-----------------------------------------------------------------------------
(* modeling/registry.py, utils/io.py: write_active_model -> _write_pointer  *)
(* -> save_json: open(path, "w") truncates the file in place, json.dump     *)
(* fills the buffer, and leaving the `with` block flushes it.               *)

SaveJsonOpen(v) ==
    /\ UNCHANGED outsideBundle
    /\ writerPc = "idle"
    /\ writerPc' = "opened"
    /\ writerOld' = activePtr
    /\ writerNew' = File("object", v)
    /\ activePtr' = File("empty", <<>>)
    /\ UNCHANGED <<versionsOk, _active_version, _active_bundle, lockHolder, loadCount,
                   lastLoaded, pc, attempt, ver, pre, seen, ret, phase, http>>

SaveJsonClose ==
    /\ UNCHANGED outsideBundle
    /\ writerPc = "opened"
    /\ writerPc' = "idle"
    /\ activePtr' = writerNew
    /\ writerOld' = NoFile
    /\ writerNew' = NoFile
    /\ UNCHANGED <<versionsOk, _active_version, _active_bundle, lockHolder, loadCount,
                   lastLoaded, pc, attempt, ver, pre, seen, ret, phase, http>>

-----------------------------------------------------------------------------
(* The environment of the manager: the pointer file is deleted, replaced or *)
(* corrupted from outside, version directories appear (train_and_save) and  *)
(* disappear.                                                               *)

EnvSetPointer(c) ==
    /\ UNCHANGED outsideBundle
    /\ writerPc = "idle"
    /\ c # activePtr
    /\ activePtr' = c
    /\ UNCHANGED <<versionsOk, writerPc, writerOld, writerNew, _active_version,
                   _active_bundle, lockHolder, loadCount, lastLoaded, pc, attempt, ver,
                   pre, seen, ret, phase, http>>

EnvSetVersionDir(v) ==
    /\ UNCHANGED outsideBundle
    /\ versionsOk' = IF v \in versionsOk THEN versionsOk \ {v} ELSE versionsOk \cup {v}
    /\ UNCHANGED <<activePtr, writerPc, writerOld, writerNew, _active_version,
                   _active_bundle, lockHolder, loadCount, lastLoaded, pc, attempt, ver,
                   pre, seen, ret, phase, http>>

NextBundle ==
    \/ Startup
    \/ \E t \in Threads : PredictBegin(t)
    \/ \E t \in Threads : PredictNoRuntime(t)
    \/ \E t \in Callers : ReadPointer(t)
    \/ \E t \in Callers : LoadBundle(t)
    \/ \E v \in Versions : SaveJsonOpen(v)
    \/ SaveJsonClose
    \/ \E c \in PointerContents : EnvSetPointer(c)
    \/ \E v \in Versions : EnvSetVersionDir(v)

SpecBundle == InitBundle /\ [][NextBundle]_vars

-----------------------------------------------------------------------------
(* Claims about the bundle manager (SpecBundle) *)

\* a get_active call has left the lock and its record is still in place
CallDone == lockHolder = NoHolder /\ ret.outcome # "none"

Blank(v) == \A i \in 1 .. Len(v) : v[i] = " "

\* the pointer file is missing, empty or unparseable, or names nothing
PointerNamesNothing(c) ==
    \/ c.kind \in {"absent", "unreadable", "empty", "garbage", "nokey"}
    \/ c.kind = "object" /\ Blank(c.value)

LoadRaised == ret.loadTried /\ ~ret.loadOk

CacheIs(pair) == _active_version = pair.version /\ _active_bundle = pair.bundle

C2_NeverRaisesOnceServed ==
    (CallDone /\ pre.bundle # NoBundle)
        => (ret.outcome = "bundle" /\ http.status # 503)

\* C3: the cached pair is consistent in every state: bundle unset exactly
\* when version unset; otherwise the bundle is the object built by the most
\* recent successful load and carries the cached version; a bundle returned
\* by get_active is the cached one.
C3_CachedPairConsistent ==
    /\ (_active_bundle = NoBundle) <=> (_active_version = NoVersion)
    /\ _active_bundle # NoBundle =>
          /\ _active_bundle.model_version = _active_version
          /\ _active_version = lastLoaded
          /\ _active_bundle.id = loadCount
    /\ (CallDone /\ ret.outcome = "bundle") => ret.bundle = _active_bundle

C3_Witness ==
    /\ CallDone /\ loadCount = 2 /\ LoadRaised
    /\ ret.outcome = "bundle" /\ ret.bundle.id = 2

\* C4: with no bundle cached, a get_active call that finds the pointer
\* missing or invalid, or whose load raises, raises; the cached version and
\* bundle stay unset and /predict answers 503.
C4_FailsWithoutCache ==
    (CallDone /\ pre.bundle = NoBundle
        /\ (PointerNamesNothing(seen.content) \/ seen.content.kind = "nonobject" \/ LoadRaised))
        => /\ ret.outcome = "raise"
           /\ CacheIs(NoPair)
           /\ phase = "failed"
           /\ http.status \in {0, 503}

C4_Witness ==
    /\ CallDone /\ pre.bundle = NoBundle /\ LoadRaised
    /\ ret.outcome = "raise" /\ http.status = 503

\* C5 (as claimed): no read of the pointer file made while save_json is
\* writing it finds anything but the complete old or the complete new
\* content.
C5_NoTornRead == ~seen.torn

\* C6: a get_active call that reads a pointer naming version v: if v is the
\* cached version it returns the cached object without loading; otherwise it
\* loads v, and when the load succeeds it returns the new bundle of v, the
\* cached pair is (v, that bundle), and /predict reports model_version = v.
C6_HotSwapOnNextCall ==
    (CallDone /\ seen.content.kind = "object" /\ ~Blank(seen.content.value)) =>
        LET v == Strip(seen.content.value) IN
        IF pre.bundle # NoBundle /\ pre.version = v
        THEN ~ret.loadTried /\ ret.outcome = "bundle" /\ ret.bundle = pre.bundle /\ CacheIs(pre)
        ELSE /\ ret.loadTried
             /\ ret.loadOk =>
                   /\ ret.outcome = "bundle"
                   /\ ret.bundle.model_version = v
                   /\ ret.bundle.id # pre.bundle.id
                   /\ CacheIs([version |-> v, bundle |-> ret.bundle])
                   /\ http.status = 200 => http.model_version = v

C6_Witness ==
    /\ CallDone /\ pre.bundle # NoBundle /\ ret.loadOk
    /\ seen.content = File("object", <<"b", " ">>)
    /\ http.status = 200 /\ http.model_version = <<"b">> /\ pre.version = <<"a">>

-----------------------------------------------------------------------------
(* drift/emitter.py: RetrainEmitter.emit, one action per system call.       *)

\* time.strftime("%Y%m%d_%H%M%S", time.localtime(now)): the second of `now`,
\* which is all of `now` that the clock of this model keeps
Stamp(now) == now

\* _pending_requests: glob("retrain_request_*.json"); the .json.tmp names do
\* not match the pattern
PendingRequests == {s \in Seconds : reqFile[s] # NoInode}

\* InCooldown with the comparison turned round
InCooldown_Inverted(last, now) == last # NoTime /\ now - last > CooldownSecs

\* `last is not None and (now - last) < float(self.cooldown_seconds)`
InCooldown(last, now) == last # NoTime /\ now - last < CooldownSecs

\* BacklogFull with > for >=
BacklogFull_OffByOne(n) == n > max_pending

\* emit without the backlog test
BacklogFull_Never(n) == FALSE

\* `len(self._pending_requests()) >= int(self.max_pending)`
BacklogFull(n) == n >= max_pending

Referenced(tmp, req, fd) ==
    ({tmp[s] : s \in Seconds} \cup {req[s] : s \in Seconds} \cup {fd[t] : t \in EThreads})
        \ {NoInode}

\* the inode a newly created file gets
FreshInode ==
    CHOOSE i \in InodeIds :
        /\ i \notin Referenced(tmpFile, reqFile, eFd)
        /\ \A j \in InodeIds : j < i => j \in Referenced(tmpFile, reqFile, eFd)

\* two calls of emit whose `now` are a and b were made less than the
\* cooldown apart
LessThanCooldownApart(a, b) ==
    (a <= b /\ b - a < CooldownSecs) \/ (b <= a /\ a - b < CooldownSecs)

\* emit returns r (or raises) at the line where thread t is: the call is over
EmitReturn(t, r) ==
    /\ ePc' = [ePc EXCEPT ![t] = "idle"]
    /\ eNow' = [eNow EXCEPT ![t] = 0]
    /\ eRet' = [eRet EXCEPT ![t] = [value |-> r, at |-> ePc[t]]]
    /\ IF r = "true"
       THEN /\ lastOk' = eNow[t]
            /\ closePair' = (closePair \/ (/\ lastOk # NoTime
                                            /\ Stamp(lastOk) # Stamp(eNow[t])
                                            /\ LessThanCooldownApart(lastOk, eNow[t])))
       ELSE UNCHANGED <<lastOk, closePair>>

\* thread t enters emit: `now = time.time()`
EmitEnter(t) ==
    /\ ePc[t] = "idle"
    /\ ePc' = [ePc EXCEPT ![t] = "cooldown"]
    /\ eNow' = [eNow EXCEPT ![t] = clock]
    /\ eRet' = [eRet EXCEPT ![t] = NoReturn]
    /\ overlap' = (overlap \/ \E u \in EThreads \ {t} : ePc[u] # "idle")
    /\ UNCHANGED <<clock, marker, tmpFile, reqFile, full, eFd, lastOk, closePair,
                   wPc, wReqs>>

\* a call of emit on its own
EmitBegin(t) ==
    /\ UNCHANGED outsideEmit
    /\ EmitEnter(t)

\* `last = self._last_emit_time()` and the cooldown test
CheckCooldown(t) ==
    /\ UNCHANGED outsideEmit
    /\ ePc[t] = "cooldown"
    /\ IF InCooldown(marker, eNow[t])
       THEN EmitReturn(t, "false")
       ELSE /\ ePc' = [ePc EXCEPT ![t] = "backlog"]
            /\ UNCHANGED <<eNow, eRet, lastOk, closePair>>
    /\ UNCHANGED <<clock, marker, tmpFile, reqFile, full, eFd, overlap, wPc, wReqs>>

\* the backlog test
CheckBacklog(t) ==
    /\ UNCHANGED outsideEmit
    /\ ePc[t] = "backlog"
    /\ IF BacklogFull(Cardinality(PendingRequests))
       THEN EmitReturn(t, "false")
       ELSE /\ ePc' = [ePc EXCEPT ![t] = "open"]
            /\ UNCHANGED <<eNow, eRet, lastOk, closePair>>
    /\ UNCHANGED <<clock, marker, tmpFile, reqFile, full, eFd, overlap, wPc, wReqs>>

\* tmp.write_text: open(tmp, "w") creates the file, or truncates the inode
\* the name already has
OpenTmp(t) ==
    /\ UNCHANGED outsideEmit
    /\ ePc[t] = "open"
    /\ LET s == Stamp(eNow[t])
           i == IF tmpFile[s] = NoInode THEN FreshInode ELSE tmpFile[s]
       IN  /\ tmpFile' = [tmpFile EXCEPT ![s] = i]
           /\ eFd' = [eFd EXCEPT ![t] = i]
           /\ full' = full \ {i}
    /\ ePc' = [ePc EXCEPT ![t] = "close"]
    /\ UNCHANGED <<clock, marker, reqFile, eNow, eRet, lastOk, closePair, overlap,
                   wPc, wReqs>>

\* tmp.write_text: the payload reaches the opened inode when the file object
\* is closed, whatever name the inode has by then
CloseTmp(t) ==
    /\ UNCHANGED outsideEmit
    /\ ePc[t] = "close"
    /\ eFd' = [eFd EXCEPT ![t] = NoInode]
    /\ full' = (full \cup {eFd[t]}) \cap Referenced(tmpFile, reqFile, eFd')
    /\ ePc' = [ePc EXCEPT ![t] = "rename"]
    /\ UNCHANGED <<clock, marker, tmpFile, reqFile, eNow, eRet, lastOk, closePair,
                   overlap, wPc, wReqs>>

\* tmp.replace(path): FileNotFoundError when the tmp name is gone
RenameTmp(t) ==
    /\ UNCHANGED outsideEmit
    /\ ePc[t] = "rename"
    /\ LET s == Stamp(eNow[t]) IN
       IF tmpFile[s] = NoInode
       THEN /\ EmitReturn(t, "raise")
            /\ UNCHANGED <<tmpFile, reqFile, full>>
       ELSE /\ reqFile' = [reqFile EXCEPT ![s] = tmpFile[s]]
            /\ tmpFile' = [tmpFile EXCEPT ![s] = NoInode]
            /\ full' = full \cap Referenced(tmpFile', reqFile', eFd)
            /\ ePc' = [ePc EXCEPT ![t] = "touch"]
            /\ UNCHANGED <<eNow, eRet, lastOk, closePair>>
    /\ UNCHANGED <<clock, marker, eFd, overlap, wPc, wReqs>>

\* _touch_marker: write_text when the marker is absent, and touch(): the
\* mtime is the time of the call
TouchMarker(t) ==
    /\ UNCHANGED outsideEmit
    /\ ePc[t] = "touch"
    /\ marker' = clock
    /\ ePc' = [ePc EXCEPT ![t] = "utime"]
    /\ UNCHANGED <<clock, tmpFile, reqFile, full, eNow, eFd, eRet, lastOk, closePair,
                   overlap, wPc, wReqs>>

\* _touch_marker: os.utime(marker, (now, now)); return True
UtimeMarker(t) ==
    /\ UNCHANGED outsideEmit
    /\ ePc[t] = "utime"
    /\ marker' = eNow[t]
    /\ EmitReturn(t, "true")
    /\ UNCHANGED <<clock, tmpFile, reqFile, full, eFd, overlap, wPc, wReqs>>

\* time passes
Tick ==
    /\ UNCHANGED outsideEmit
    /\ clock < MaxTime
    /\ clock' = clock + 1
    /\ UNCHANGED <<marker, tmpFile, reqFile, full, ePc, eNow, eFd, eRet, lastOk,
                   closePair, overlap, wPc, wReqs>>

-----------------------------------------------------------------------------
(* scripts/watcher.py: one iteration of the loop of main.                   *)

\* `reqs = _list_requests(...)` is not empty and reqs[0] is handled.  The
\* test _train_cooldown_ok before it only puts this step off.
WorkerPoll ==
    /\ UNCHANGED outsideEmit
    /\ wPc = "idle"
    /\ PendingRequests # {}
    /\ wPc' = "handling"
    /\ wReqs' = PendingRequests
    /\ UNCHANGED <<clock, marker, tmpFile, reqFile, full, ePc, eNow, eFd, eRet,
                   lastOk, closePair, overlap>>

\* _handle_request ends, by its last line (the request is moved to
\* processed/) or by an exception (it is moved to failed/); then every other
\* listed request is unlinked
WorkerFinish ==
    /\ UNCHANGED outsideEmit
    /\ wPc = "handling"
    /\ reqFile' = [s \in Seconds |-> IF s \in wReqs THEN NoInode ELSE reqFile[s]]
    /\ full' = full \cap Referenced(tmpFile, reqFile', eFd)
    /\ wPc' = "idle"
    /\ wReqs' = {}
    /\ UNCHANGED <<clock, marker, tmpFile, ePc, eNow, eFd, eRet, lastOk, closePair,
                   overlap>>

InitEmit ==
    /\ ServeIdle /\ RestIdle
    /\ DriftIdle
    /\ CallIdle
    /\ TriggerIdle
    /\ BundleIdle
    /\ activePtr = NoFile
    /\ versionsOk = {}
    /\ EmitIdle

NextEmit ==
    \/ \E t \in EThreads : EmitBegin(t)
    \/ \E t \in EThreads : CheckCooldown(t)
    \/ \E t \in EThreads : CheckBacklog(t)
    \/ \E t \in EThreads : OpenTmp(t)
    \/ \E t \in EThreads : CloseTmp(t)
    \/ \E t \in EThreads : RenameTmp(t)
    \/ \E t \in EThreads : TouchMarker(t)
    \/ \E t \in EThreads : UtimeMarker(t)
    \/ Tick
    \/ WorkerPoll
    \/ WorkerFinish

SpecEmit == InitEmit /\ [][NextEmit]_vars

-----------------------------------------------------------------------------
(* Claims about the retrain emitter (SpecEmit) *)

NumPending == Cardinality(PendingRequests)

\* thread t takes a step of its call of emit
EmitStep(t) == ePc'[t] # ePc[t]

\* the `now` of the call that thread t is in, or begins in this step
NowOf(t) == IF ePc[t] = "idle" THEN clock ELSE eNow[t]

C8_BacklogBound ==
    /\ [](~overlap => NumPending <= max_pending)
    /\ [][\A t \in EThreads :
             (ePc[t] = "backlog" /\ ePc'[t] # "backlog" /\ NumPending >= max_pending)
                 => (ePc'[t] = "idle" /\ eRet'[t].value = "false" /\ reqFile' = reqFile
                     /\ tmpFile' = tmpFile /\ marker' = marker)]_vars

C8_Witness ==
    /\ ~overlap /\ \E t \in EThreads : eRet[t] = [value |-> "false", at |-> "backlog"]
    /\ NumPending = max_pending
    /\ \A t \in EThreads : ePc[t] = "idle"

\* C9 (as claimed): every file the glob retrain_request_*.json finds holds
\* the complete JSON payload, under any interleaving of emit calls.
C9_RequestFilesComplete ==
    \A s \in Seconds : reqFile[s] # NoInode => reqFile[s] \in full

\* C10: with NumEmitters threads calling emit concurrently, the number of
\* pending request files never exceeds max_pending + NumEmitters.
C10_BoundedOverEmission == NumPending <= max_pending + NumEmitters

C10_Witness == overlap /\ NumPending > max_pending

-----------------------------------------------------------------------------
(* drift/detector.py: DriftDetector.update_and_score *)

Max(a, b) == IF a >= b THEN a ELSE b
Min(a, b) == IF a <= b THEN a ELSE b

\* np.clip(x, lo, hi)
Clip(x, lo, hi) == Max(lo, Min(x, hi))

\* the Python slice b[-n:]
LastRows(b, n) ==
    LET len   == Len(b)
        start == IF n > 0 THEN Max(len - n, 0) ELSE Min(0 - n, len)
    IN  SubSeq(b, start + 1, len)

\* `if len(self._buf) > self.window_size: self._buf = self._buf[-self.window_size:]`
Truncate(b, w) == IF Len(b) > w THEN LastRows(b, w) ELSE b

\* the warm-up test without the floor of 100 rows
InWarmup_StrideOnly(len, st) == len < st

\* `len(self._buf) < max(100, self.stride)`
InWarmup(len, st) == len < Max(WarmupRows, st)

\* the stride test with <= for <
StrideNotReached_OffByOne(since, st) == since <= st

\* `self._since_last < self.stride`
StrideNotReached(since, st) == since < st

\* psi_score, ks_flag_frac and drift_score of a recomputation, from the mean
\* of the normalised PSI values and the fraction of flagged features
DriftScore(psi, ks) ==
    Clip(PSI_WEIGHT * Clip(psi, 0, One) + KS_WEIGHT * Clip(ks, 0, One), 0, ScoreOne)

\* update_and_score(row); psi, ks and top are what the statistics of the
\* window come to when they are recomputed
UpdateAndScore(row, psi, ks, top) ==
    LET buf   == Truncate(Append(_buf, row), window_size)
        since == _since_last + 1
    IN  /\ _buf' = buf
        /\ IF InWarmup(Len(buf), stride)
           THEN /\ _since_last' = since
                /\ dOut' = [drift_score |-> 0, top |-> NoTop, updated |-> FALSE,
                            branch |-> "warmup"]
                /\ UNCHANGED <<_last_score, _last_top>>
           ELSE IF StrideNotReached(since, stride)
           THEN /\ _since_last' = since
                /\ dOut' = [drift_score |-> _last_score, top |-> _last_top,
                            updated |-> FALSE, branch |-> "cached"]
                /\ UNCHANGED <<_last_score, _last_top>>
           ELSE /\ _since_last' = 0
                /\ _last_score' = DriftScore(psi, ks)
                /\ _last_top' = top
                /\ dOut' = [drift_score |-> DriftScore(psi, ks), top |-> top,
                            updated |-> TRUE, branch |-> "recomputed"]

\* one call of update_and_score on the detector alone; the row is named by
\* its arrival number
DriftCall ==
    /\ UNCHANGED outsideDrift
    /\ ingested < MaxRows
    /\ \E psi \in RawPsi, ks \in RawKs, top \in Tops :
          UpdateAndScore(ingested + 1, psi, ks, top)
    /\ ingested' = ingested + 1
    /\ rowsSince' = IF dOut'.updated THEN 0 ELSE rowsSince + 1
    /\ UNCHANGED <<window_size, stride>>

InitDrift ==
    /\ ServeIdle /\ RestIdle
    /\ BundleIdle /\ activePtr = NoFile /\ versionsOk = {}
    /\ EmitIdle
    /\ CallIdle
    /\ TriggerIdle
    /\ window_size \in WindowSizes
    /\ stride \in Strides
    /\ DriftNew

NextDrift == DriftCall

SpecDrift == InitDrift /\ [][NextDrift]_vars

-----------------------------------------------------------------------------
(* Claims about the drift detector (SpecDrift) *)

\* the rows numbered a..b, in arrival order
RowsFromTo(a, b) == [i \in 1 .. (b - a + 1) |-> a + i - 1]

\* C18 (as claimed): after every update_and_score call the buffer holds at
\* most window_size rows, for every window_size >= 0, and a full buffer holds
\* exactly the window_size most recent rows in arrival order.
C18_WindowBound ==
    /\ Len(_buf) <= window_size
    /\ Len(_buf) = window_size
           => _buf = RowsFromTo(ingested - window_size + 1, ingested)

\* C19: every drift_score returned lies in [0,1]; while the buffer holds fewer
\* than max(100, stride) rows the call returns score 0, no top features and
\* counts, updated=false, and leaves the cached last result as it was.
C19_WarmupAndRange ==
    /\ [](dOut.drift_score >= 0 /\ dOut.drift_score <= ScoreOne)
    /\ [][(ingested' = ingested + 1 /\ Len(_buf') < Max(WarmupRows, stride))
             => /\ dOut' = [drift_score |-> 0, top |-> NoTop, updated |-> FALSE,
                            branch |-> "warmup"]
                /\ _last_score' = _last_score
                /\ _last_top' = _last_top]_vars

C19_Witness ==
    /\ dOut.branch = "warmup" /\ stride > WarmupRows
    /\ Len(_buf) > WarmupRows /\ Len(_buf) < stride

\* C20: once the buffer has reached max(100, stride) rows, a call recomputes
\* (updated=true, _since_last back to 0) exactly when the rows ingested since
\* the last recomputation have reached stride, the first time on the very call
\* at which the buffer reaches max(100, stride); every other call returns the
\* result stored by the most recent recomputation, with updated=false.
C20_StridedRecompute ==
    [][(ingested' = ingested + 1 /\ Len(_buf') >= Max(WarmupRows, stride))
          => IF rowsSince + 1 >= stride
             THEN dOut'.updated /\ _since_last' = 0
                  /\ dOut'.drift_score = _last_score' /\ dOut'.top = _last_top'
             ELSE /\ dOut' = [drift_score |-> _last_score, top |-> _last_top,
                              updated |-> FALSE, branch |-> "cached"]
                  /\ _last_score' = _last_score /\ _last_top' = _last_top]_vars

C20_Witness ==
    /\ dOut.branch = "cached" /\ dOut.drift_score > 0
    /\ stride > 1 /\ ingested > Max(WarmupRows, stride) + stride

-----------------------------------------------------------------------------
(* api/decisions.py: decide_action *)

ACTION_PREDICT  == "PREDICT"
ACTION_MONITOR  == "MONITOR"
ACTION_FALLBACK == "FALLBACK"
ACTION_ABSTAIN  == "ABSTAIN"
REASON_CONFORMAL_UNCERTAIN == "CONFORMAL_UNCERTAIN"
REASON_HARD_DRIFT          == "HARD_DRIFT"
REASON_SOFT_DRIFT          == "SOFT_DRIFT"
REASON_DATA_CONTRACT       == "DATA_CONTRACT"

\* class labels, and the prediction sets (lists) a request can get
Labels   == {"non_fraud", "fraud"}
PredSets == {<<>>, <<"non_fraud">>, <<"fraud">>, <<"non_fraud", "fraud">>}

\* scores and thresholds the policy is tried on
Levels == {0, 6, 7, 14, ScoreOne}

\* `len(pred_set) != 1`
IsUncertain(pred_set) == Len(pred_set) # 1

\* decide_action with the two drift tests in the other order
DecideAction_SoftFirst(pred_set, drift_score, soft_thr, hard_thr) ==
    IF IsUncertain(pred_set)
    THEN [action |-> ACTION_ABSTAIN, reasons |-> <<REASON_CONFORMAL_UNCERTAIN>>]
    ELSE IF drift_score >= soft_thr
    THEN [action |-> ACTION_MONITOR, reasons |-> <<REASON_SOFT_DRIFT>>]
    ELSE IF drift_score >= hard_thr
    THEN [action |-> ACTION_FALLBACK, reasons |-> <<REASON_HARD_DRIFT>>]
    ELSE [action |-> ACTION_PREDICT, reasons |-> <<>>]

DecideAction(pred_set, drift_score, soft_thr, hard_thr) ==
    IF IsUncertain(pred_set)
    THEN [action |-> ACTION_ABSTAIN, reasons |-> <<REASON_CONFORMAL_UNCERTAIN>>]
    ELSE IF drift_score >= hard_thr
    THEN [action |-> ACTION_FALLBACK, reasons |-> <<REASON_HARD_DRIFT>>]
    ELSE IF drift_score >= soft_thr
    THEN [action |-> ACTION_MONITOR, reasons |-> <<REASON_SOFT_DRIFT>>]
    ELSE [action |-> ACTION_PREDICT, reasons |-> <<>>]

DecideInputs ==
    [fn : {"decide_action"}, pred_set : PredSets, drift_score : Levels,
     soft_thr : Levels, hard_thr : Levels]

\* the call decide_action(**args)
CallDecideAction ==
    /\ UNCHANGED outsideCall
    /\ args.fn = "decide_action"
    /\ result = NotCalled
    /\ result' = [fn |-> "decide_action",
                  out |-> DecideAction(args.pred_set, args.drift_score,
                                       args.soft_thr, args.hard_thr)]
    /\ UNCHANGED args

InitDecide ==
    /\ ServeIdle /\ RestIdle
    /\ BundleIdle /\ activePtr = NoFile /\ versionsOk = {}
    /\ EmitIdle
    /\ DriftIdle
    /\ TriggerIdle
    /\ args \in DecideInputs
    /\ result = NotCalled

NextDecide == CallDecideAction

SpecDecide == InitDecide /\ [][NextDecide]_vars

\* C14: decide_action follows the policy table on every input: |set| # 1
\* gives (ABSTAIN, [CONFORMAL_UNCERTAIN]) whatever the score; otherwise
\* score >= hard gives (FALLBACK, [HARD_DRIFT]); otherwise score >= soft gives
\* (MONITOR, [SOFT_DRIFT]); otherwise (PREDICT, []). One action, at most one
\* reason.
C14_PolicyTable ==
    result.fn = "decide_action" =>
        LET o == result.out
            n == Len(args.pred_set)
        IN  /\ n # 1 => o = [action |-> "ABSTAIN", reasons |-> <<"CONFORMAL_UNCERTAIN">>]
            /\ (n = 1 /\ args.drift_score >= args.hard_thr)
                   => o = [action |-> "FALLBACK", reasons |-> <<"HARD_DRIFT">>]
            /\ (n = 1 /\ args.drift_score < args.hard_thr
                      /\ args.drift_score >= args.soft_thr)
                   => o = [action |-> "MONITOR", reasons |-> <<"SOFT_DRIFT">>]
            /\ (n = 1 /\ args.drift_score < args.hard_thr
                      /\ args.drift_score < args.soft_thr)
                   => o = [action |-> "PREDICT", reasons |-> <<>>]
            /\ o.action \in {"PREDICT", "MONITOR", "FALLBACK", "ABSTAIN"}
            /\ Len(o.reasons) <= 1

\* a single-label set whose score is at or above both thresholds, with the
\* soft threshold above the hard one
C14_Witness ==
    /\ result.fn = "decide_action" /\ Len(args.pred_set) = 1
    /\ args.soft_thr > args.hard_thr /\ args.drift_score >= args.soft_thr
    /\ result.out.action = "FALLBACK"

-----------------------------------------------------------------------------
(* api/main.py: _schema_check *)

\* bundle.feature_names, and the keys a payload may carry, in sorted order
FeatureNames == <<"f1", "f2">>
KeyOrder     == <<"f1", "f2", "x">>
Keys         == {KeyOrder[i] : i \in 1 .. Len(KeyOrder)}
Required     == {FeatureNames[i] : i \in 1 .. Len(FeatureNames)}

\* the JSON values of a payload, by what the check can tell apart:
\*   int 3, float 1.5, float inf (1e999), an int beyond the range of float,
\*   the strings "1.5", "nan" and "abc", a boolean, null, a list
ValueKinds == {"int", "float", "inf", "bigint", "numstr", "nanstr", "str",
               "bool", "null", "list"}

\* the sum type {int, float, string, bool, null} of the value, or list
JsonType(v) ==
    CASE v \in {"int", "bigint"}             -> "int"
      [] v \in {"float", "inf"}              -> "float"
      [] v \in {"numstr", "nanstr", "str"}   -> "string"
      [] v = "bool"                          -> "bool"
      [] v = "null"                          -> "null"
      [] OTHER                               -> "list"

\* what float(value) does
Float(v) ==
    CASE v \in {"int", "float", "numstr", "bool"} -> "finite"
      [] v \in {"inf", "nanstr"}                  -> "nonfinite"
      [] v = "bigint"                             -> "OverflowError"
      [] v = "str"                                -> "ValueError"
      [] OTHER                                    -> "TypeError"

\* payloads: the keys present, each with its value
Payloads == UNION {[ks -> ValueKinds] : ks \in SUBSET Keys}

\* sorted(names)
Sorted(names) == SelectSeq(KeyOrder, LAMBDA k : k \in names)

\* lines 164-173: is the value put on invalid_values?  (float() raising
\* anything but TypeError or ValueError leaves the function)
IsInvalidValue(v) ==
    \/ v = "null" \/ v = "bool"
    \/ Float(v) \in {"TypeError", "ValueError"}
    \/ Float(v) = "nonfinite"

Escapes(v) == ~(v = "null" \/ v = "bool") /\ Float(v) = "OverflowError"

\* _schema_check(bundle_features, payload, version, schema)
SchemaCheck(bundle_features, payload, version, schema) ==
    LET keys     == DOMAIN payload
        required == {bundle_features[i] : i \in 1 .. Len(bundle_features)}
        missing  == Sorted(required \ keys)
        extras   == IF schema.allow_extras THEN <<>> ELSE Sorted(keys \ required)
        supplied == SelectSeq(bundle_features, LAMBDA n : n \in keys)
        invalid  == SelectSeq(supplied, LAMBDA n : IsInvalidValue(payload[n]))
        reasons  ==
            (IF version # schema.version
             THEN <<[code |-> "SCHEMA_MISMATCH", names |-> <<>>]>> ELSE <<>>)
            \o (IF missing # <<>>
                THEN <<[code |-> "MISSING_FEATURES", names |-> missing]>> ELSE <<>>)
            \o (IF extras # <<>>
                THEN <<[code |-> "EXTRA_FEATURES", names |-> extras]>> ELSE <<>>)
            \o (IF invalid # <<>>
                THEN <<[code |-> "INVALID_FEATURE_VALUES", names |-> invalid]>> ELSE <<>>)
    IN  IF \E i \in 1 .. Len(supplied) : Escapes(payload[supplied[i]])
        THEN [raised |-> TRUE, ok |-> FALSE, reasons |-> <<>>]
        ELSE [raised |-> FALSE, ok |-> (Len(reasons) = 0), reasons |-> reasons]

SchemaVersions == {1, 2}

SchemaInputs ==
    [fn : {"_schema_check"}, payload : Payloads, version : SchemaVersions,
     schema : [version : SchemaVersions, allow_extras : BOOLEAN]]

\* the call _schema_check(bundle.feature_names, **args)
CallSchemaCheck ==
    /\ UNCHANGED outsideCall
    /\ args.fn = "_schema_check"
    /\ result = NotCalled
    /\ result' = [fn |-> "_schema_check",
                  out |-> SchemaCheck(FeatureNames, args.payload, args.version,
                                      args.schema)]
    /\ UNCHANGED args

InitSchema ==
    /\ ServeIdle /\ RestIdle
    /\ BundleIdle /\ activePtr = NoFile /\ versionsOk = {}
    /\ EmitIdle
    /\ DriftIdle
    /\ TriggerIdle
    /\ args \in SchemaInputs
    /\ result = NotCalled

NextSchema == CallSchemaCheck

SpecSchema == InitSchema /\ [][NextSchema]_vars

\* a finite number that is not a boolean
IsFiniteNumber(v) == JsonType(v) \in {"int", "float"} /\ v # "inf"

\* the features of the bundle that the payload supplies
Supplied(payload) == Required \cap DOMAIN payload

\* C17 (as claimed): _schema_check accepts a request if and only if the
\* version matches, no feature is missing, there is no extra key unless
\* allow_extras, and every supplied feature value is a finite number that is
\* not a boolean; string and null values are rejected with
\* INVALID_FEATURE_VALUES.
C17_SchemaAcceptsIff ==
    result.fn = "_schema_check" =>
        LET o == result.out
            p == args.payload
        IN  /\ ~o.raised
            /\ o.ok <=> /\ args.version = args.schema.version
                        /\ Required \subseteq DOMAIN p
                        /\ args.schema.allow_extras \/ DOMAIN p \subseteq Required
                        /\ \A n \in Supplied(p) : IsFiniteNumber(p[n])
            /\ \A n \in Supplied(p) :
                  JsonType(p[n]) \in {"string", "null"}
                      => \E i \in 1 .. Len(o.reasons) :
                            /\ o.reasons[i].code = "INVALID_FEATURE_VALUES"
                            /\ \E j \in 1 .. Len(o.reasons[i].names) :
                                  o.reasons[i].names[j] = n

-----------------------------------------------------------------------------
(* drift/retrain.py: RetrainTrigger.on_drift_update *)

\* drift.soft_threshold and drift.hard_threshold of the configuration
soft_thr == 7
hard_thr == 14

\* values of drift.required_hard_windows
RequiredWindows == {1, 2, 3}

\* the counter after a trigger, without the reset
AfterTrigger_NoReset(hits) == hits

\* `self._hard_hits = 0` ("reset so we don't spam")
AfterTrigger(hits) == 0

\* on_drift_update(drift_score, extra)
OnDriftUpdate(drift_score) ==
    LET hits == IF drift_score >= hard_thr THEN _hard_hits + 1 ELSE 0
    IN  IF hits >= required_hard_windows
        THEN /\ trig' = [triggered |-> TRUE, reason |-> hits]
             /\ _hard_hits' = AfterTrigger(hits)
        ELSE /\ trig' = [triggered |-> FALSE, reason |-> 0]
             /\ _hard_hits' = hits

\* one call of on_drift_update on the trigger alone
TriggerCall ==
    /\ UNCHANGED outsideTrigger
    /\ Len(tHist) < MaxCalls
    /\ \E score \in Levels :
          /\ OnDriftUpdate(score)
          /\ tHist' = Append(tHist, [drift_score |-> score,
                                     triggered |-> trig'.triggered])
    /\ UNCHANGED required_hard_windows

InitTrigger ==
    /\ ServeIdle /\ RestIdle
    /\ BundleIdle /\ activePtr = NoFile /\ versionsOk = {}
    /\ EmitIdle
    /\ DriftIdle
    /\ CallIdle
    /\ required_hard_windows \in RequiredWindows
    /\ TriggerNew

NextTrigger == TriggerCall

SpecTrigger == InitTrigger /\ [][NextTrigger]_vars

\* call n of the history had drift_score >= hard_thr
HardCall(h, n) == h[n].drift_score >= hard_thr

\* the consecutive hard calls that end with call n, counted back to the last
\* call that was not hard or that triggered
RECURSIVE HardBefore(_, _)
HardBefore(h, n) ==
    IF n = 0 \/ ~HardCall(h, n) \/ h[n].triggered THEN 0
    ELSE 1 + HardBefore(h, n - 1)

HardRun(h, n) == IF HardCall(h, n) THEN 1 + HardBefore(h, n - 1) ELSE 0

\* C11: on_drift_update returns triggered=true exactly on the call that
\* completes required_hard_windows consecutive calls with drift_score >=
\* hard_thr, counted since the last non-hard call or the last trigger; that
\* call resets the counter to 0, every other call returns triggered=false, and
\* a call with drift_score < hard_thr resets the counter to 0.
C11_FiresOncePerCrossing ==
    /\ \A n \in 1 .. Len(tHist) :
          tHist[n].triggered <=> HardRun(tHist, n) = required_hard_windows
    /\ tHist # <<>> =>
          LET n == Len(tHist)
          IN  /\ trig.triggered = tHist[n].triggered
              /\ _hard_hits = IF tHist[n].triggered \/ ~HardCall(tHist, n)
                              THEN 0 ELSE HardRun(tHist, n)

\* the trigger has fired, re-armed, and fired again
C11_Witness ==
    /\ required_hard_windows = 2 /\ Len(tHist) >= 5
    /\ \E m, n \in 1 .. Len(tHist) :
          m < n /\ tHist[m].triggered /\ tHist[n].triggered
    /\ \E n \in 1 .. Len(tHist) : ~HardCall(tHist, n)

-----------------------------------------------------------------------------
(* api/main.py: the /predict handler (after _require_runtime and get_active
   have returned the active bundle) *)

ServeStride   == 3   \* drift.stride of the serving configuration
ServeRequired == 2   \* drift.required_hard_windows of the serving configuration

\* bundle.cfg["schema"] : the defaults of _schema_check
ServeSchema == [version |-> 1, allow_extras |-> FALSE]

\* request payloads: valid, a feature missing, a null value, and a value that
\* float() cannot convert
ServePayloads ==
    { ("f1" :> "int") @@ ("f2" :> "float"),
      ("f1" :> "int"),
      ("f1" :> "int") @@ ("f2" :> "null"),
      ("f1" :> "bigint") @@ ("f2" :> "float") }


\* get_shadow() and the sampling: no shadow bundle (or sampled out), a shadow
\* run, or a shadow run that raises
Shadows == {"none", "run", "failed"}

\* the detector of the active bundle once window_size rows have been served,
\* the last of them recomputing a score of 0; the rows are not told apart
DriftWarm ==
    /\ window_size = WarmupRows
    /\ stride = ServeStride
    /\ _buf = [i \in 1 .. WarmupRows |-> 0]
    /\ _since_last = 0
    /\ _last_score = 0
    /\ _last_top = 1
    /\ dOut = [drift_score |-> 0, top |-> 1, updated |-> TRUE, branch |-> "recomputed"]
    /\ ingested = 0
    /\ rowsSince = 0

\* reasons as the response lists them
Wrap(codes) == [i \in 1 .. Len(codes) |-> [code |-> codes[i], names |-> <<>>]]

\* the schema gate that lets every request through
Rejected_Never(chk) == FALSE

\* `if not ok_schema:`
Rejected(chk) == ~chk.ok

\* prediction without the test of the action
Prediction_AnySingle(pred_set, action) ==
    IF Len(pred_set) = 1 THEN pred_set[1] ELSE NoPrediction

\* lines 400-403
Prediction(pred_set, action) ==
    IF Len(pred_set) = 1 /\ action \in {ACTION_PREDICT, ACTION_MONITOR}
    THEN pred_set[1]
    ELSE NoPrediction

\* the emit that is never called
ShouldEmit_Never(t) == FALSE

\* `if trig.get("triggered"):`
ShouldEmit(t) == t.triggered

\* what the run of a request did, as part of the record of its response
Ran(classifier, emitted, shadowed) ==
    [classifier |-> classifier, emit |-> emitted, shadow |-> shadowed]

\* lines 279-307
SchemaFailureResponse(reasons) ==
    [status |-> 200, prediction |-> NoPrediction, prediction_set |-> <<>>,
     action_code |-> ACTION_FALLBACK,
     reasons |-> <<[code |-> REASON_DATA_CONTRACT, names |-> <<>>]>> \o reasons,
     retrain_triggered |-> FALSE, drift_score |-> 0,
     ran |-> Ran(FALSE, FALSE, FALSE)]

\* lines 400-430
OkResponse(pred_set, score, da, triggered, emitted, shadow) ==
    [status |-> 200, prediction |-> Prediction(pred_set, da.action),
     prediction_set |-> pred_set, action_code |-> da.action,
     reasons |-> Wrap(da.reasons),
     retrain_triggered |-> triggered, drift_score |-> score,
     ran |-> Ran(TRUE, emitted, shadow = "run")]

\* an exception that leaves the handler: HTTPException(500) of line 313, or
\* one that nothing catches
ErrorResponse(classifier, emitted) ==
    [status |-> 500, ran |-> Ran(classifier, emitted, FALSE)]

\* a shadow block without its try
ShadowEscapes_Uncaught(shadow) == shadow = "failed"

\* `except Exception as e: logger.warning(...)`: what the shadow block raises
\* does not leave it
ShadowEscapes(shadow) == FALSE

\* lines 379-430: the response after the shadow block
Respond(pred_set, score, da, triggered, emitted, shadow) ==
    IF ShadowEscapes(shadow)
    THEN ErrorResponse(TRUE, emitted)
    ELSE OkResponse(pred_set, score, da, triggered, emitted, shadow)

\* the record of a request that has arrived
Request(chk, triggered, windows) ==
    [seq |-> 1 - lastReq.seq,
     schema |-> IF chk.raised THEN "raised" ELSE IF chk.ok THEN "ok" ELSE "failed",
     reasons |-> chk.reasons, triggered |-> triggered, windows |-> windows]

\* the handler up to the call of emit (lines 271-370), or to its end when
\* emit is not called
PredictStep(t, payload, version, raises, cls, psi, ks, top, shadow) ==
    LET chk == SchemaCheck(FeatureNames, payload, version, ServeSchema)
    IN  /\ UNCHANGED <<bundleVars, callVars, raceVars, workerVars, moreVars>>
        /\ UNCHANGED <<window_size, stride, ingested, rowsSince,
                       required_hard_windows, tHist, created, queued>>
        /\ rPc[t] = "idle" /\ ePc[t] = "idle"
        /\ IF chk.raised
           THEN /\ lastReq' = Request(chk, FALSE, hardWindows)
                /\ lastResp' = ErrorResponse(FALSE, FALSE)
                /\ UNCHANGED <<_buf, _since_last, _last_score, _last_top, dOut,
                               _hard_hits, trig, hardWindows, rPc, rHeld, emitVars>>
           ELSE IF Rejected(chk)
           THEN /\ lastReq' = Request(chk, FALSE, hardWindows)
                /\ lastResp' = SchemaFailureResponse(chk.reasons)
                /\ UNCHANGED <<_buf, _since_last, _last_score, _last_top, dOut,
                               _hard_hits, trig, hardWindows, rPc, rHeld, emitVars>>
           ELSE IF raises
           THEN /\ lastReq' = Request(chk, FALSE, hardWindows)
                /\ lastResp' = ErrorResponse(TRUE, FALSE)
                /\ UNCHANGED <<_buf, _since_last, _last_score, _last_top, dOut,
                               _hard_hits, trig, hardWindows, rPc, rHeld, emitVars>>
           ELSE /\ UpdateAndScore(0, psi, ks, top)
                /\ OnDriftUpdate(dOut'.drift_score)
                /\ LET score   == dOut'.drift_score
                       da      == DecideAction(cls, score, soft_thr, hard_thr)
                       windows == IF ~dOut'.updated THEN hardWindows
                                  ELSE IF score >= hard_thr THEN hardWindows + 1
                                  ELSE 0
                   IN  /\ lastReq' = Request(chk, trig'.triggered, windows)
                       /\ hardWindows' = IF trig'.triggered THEN 0 ELSE windows
                       /\ IF ShouldEmit(trig')
                          THEN /\ EmitEnter(t)
                               /\ rPc' = [rPc EXCEPT ![t] = "emitting"]
                               /\ rHeld' = [rHeld EXCEPT ![t] =
                                     [status |-> 200, pred_set |-> cls,
                                      score |-> score, da |-> da,
                                      triggered |-> trig'.triggered,
                                      now |-> clock, after |-> lastOk]]
                               /\ UNCHANGED lastResp
                          ELSE /\ lastResp' = Respond(cls, score, da,
                                                  trig'.triggered, FALSE, shadow)
                               /\ UNCHANGED <<rPc, rHeld, emitVars>>

\* the handler after emit has returned (lines 379-430), or the exception of
\* emit leaving the handler
PredictReturn(t, shadow) ==
    /\ UNCHANGED <<bundleVars, emitVars, driftVars, callVars, triggerVars, raceVars,
                   workerVars, moreVars>>
    /\ rPc[t] = "emitting" /\ ePc[t] = "idle"
    /\ rPc' = [rPc EXCEPT ![t] = "idle"]
    /\ rHeld' = [rHeld EXCEPT ![t] = NotHeld]
    /\ lastResp' = IF eRet[t].value = "raise"
                   THEN ErrorResponse(TRUE, TRUE)
                   ELSE Respond(rHeld[t].pred_set, rHeld[t].score, rHeld[t].da,
                                rHeld[t].triggered, TRUE, shadow)
    /\ created' = IF eRet[t].value = "true" THEN created \cup {rHeld[t].now}
                  ELSE created
    /\ UNCHANGED queued
    /\ UNCHANGED <<lastReq, hardWindows>>

\* the requests: what the handler does not read on a path is not varied
ServeInputs ==
    LET Input(payload, version, raises, cls, psi, shadow) ==
            [payload |-> payload, version |-> version, raises |-> raises,
             cls |-> cls, psi |-> psi, shadow |-> shadow]
        stops(payload, version) ==
            LET chk == SchemaCheck(FeatureNames, payload, version, ServeSchema)
            IN  chk.raised \/ ~chk.ok
    IN  { Input(c[1], c[2], FALSE, <<>>, 0, "none") :
            c \in { d \in ServePayloads \X SchemaVersions : stops(d[1], d[2]) } }
        \cup
        { Input(c[1], c[2], TRUE, <<>>, 0, "none") :
            c \in { d \in ServePayloads \X SchemaVersions : ~stops(d[1], d[2]) } }
        \cup
        { Input(c[1], c[2], FALSE, c[3], c[4], c[5]) :
            c \in { d \in ServePayloads \X SchemaVersions \X PredSets
                            \X (0 .. One) \X Shadows : ~stops(d[1], d[2]) } }

\* the thread of the pool that serves the client that waits: which one it is
\* makes no difference to it
ServeThread == 1

\* requests of a client that waits for each response
ServeRequest(t) ==
    /\ UNCHANGED shadowVars
    /\ \A u \in EThreads : rPc[u] = "idle"
    /\ \E i \in ServeInputs :
          PredictStep(t, i.payload, i.version, i.raises, i.cls, i.psi, 0, 1,
                      i.shadow)

ServeReturn(t) ==
    /\ UNCHANGED shadowVars
    /\ \E shadow \in Shadows : PredictReturn(t, shadow)

InitServe ==
    /\ ServeIdle /\ RestIdle
    /\ BundleIdle /\ activePtr = NoFile /\ versionsOk = {}
    /\ EmitIdle
    /\ CallIdle
    /\ DriftWarm
    /\ required_hard_windows = ServeRequired
    /\ TriggerNew

NextServe ==
    \/ ServeRequest(ServeThread)
    \/ \E t \in EThreads : ServeReturn(t)
    \/ \E t \in EThreads : CheckCooldown(t)
    \/ \E t \in EThreads : CheckBacklog(t)
    \/ \E t \in EThreads : OpenTmp(t)
    \/ \E t \in EThreads : CloseTmp(t)
    \/ \E t \in EThreads : RenameTmp(t)
    \/ \E t \in EThreads : TouchMarker(t)
    \/ \E t \in EThreads : UtimeMarker(t)

SpecServe == InitServe /\ [][NextServe]_vars

\* a step in which a request arrives
Arrives == lastReq' # lastReq

\* C12: in the predict path a trigger takes required_hard_windows distinct
\* recomputed windows whose score is hard: requests answered from the cached
\* score of one window do not advance the counter of consecutive hard windows
C12_TriggerTakesHardWindows ==
    lastReq.triggered => lastReq.windows >= required_hard_windows

\* C15: in a /predict response, prediction is non-null exactly when the
\* prediction set has one element and action_code is PREDICT or MONITOR, and
\* then it is that element; it is null for ABSTAIN, FALLBACK and
\* schema-failure responses
C15_PredictionIff ==
    lastResp.status = 200 =>
        /\ lastResp.prediction # NoPrediction
             <=> /\ Len(lastResp.prediction_set) = 1
                 /\ lastResp.action_code \in {ACTION_PREDICT, ACTION_MONITOR}
        /\ lastResp.prediction # NoPrediction
             => lastResp.prediction = lastResp.prediction_set[1]
        /\ lastResp.action_code \in {ACTION_ABSTAIN, ACTION_FALLBACK}
             => lastResp.prediction = NoPrediction
        /\ ~lastResp.ran.classifier => lastResp.prediction = NoPrediction

\* a single-label response under hard drift
C15_Witness ==
    /\ lastResp.status = 200
    /\ lastResp.ran.classifier
    /\ Len(lastResp.prediction_set) = 1
    /\ lastResp.action_code = ACTION_FALLBACK
    /\ lastResp.prediction = NoPrediction

\* C16: a request that fails the schema check is answered 200 with FALLBACK,
\* reasons DATA_CONTRACT followed by the sub-reasons, a null prediction and an
\* empty prediction set; the classifier, the emit and the shadow run do not
\* happen, and the drift window, its counters and the counter of the retrain
\* trigger are as before
C16_SchemaFailureFrame ==
    [][ (Arrives /\ lastReq'.schema = "failed") =>
          /\ lastResp'.status = 200
          /\ lastResp'.action_code = ACTION_FALLBACK
          /\ Len(lastReq'.reasons) >= 1
          /\ Len(lastResp'.reasons) = Len(lastReq'.reasons) + 1
          /\ lastResp'.reasons[1].code = REASON_DATA_CONTRACT
          /\ \A i \in 1 .. Len(lastReq'.reasons) :
                lastResp'.reasons[i + 1] = lastReq'.reasons[i]
          /\ lastResp'.prediction = NoPrediction
          /\ lastResp'.prediction_set = <<>>
          /\ lastResp'.ran = Ran(FALSE, FALSE, FALSE)
          /\ UNCHANGED <<_buf, _since_last, _last_score, _last_top>>
          /\ UNCHANGED <<_hard_hits, trig>>
          /\ UNCHANGED <<emitVars, rPc>>
      ]_vars

\* a request rejected in the middle of a drift window, the counter of hard
\* windows being under way
C16_Witness ==
    /\ lastReq.schema = "failed"
    /\ lastResp.status = 200
    /\ lastResp.action_code = ACTION_FALLBACK
    /\ _hard_hits > 0
    /\ _since_last > 0

-----------------------------------------------------------------------------
(* a stream of valid requests under lasting hard drift, served by the threads
   of the pool at once *)

\* a valid request whose row keeps the recomputed score at the top
StreamRequest(t) ==
    PredictStep(t, ("f1" :> "int") @@ ("f2" :> "float"), ServeSchema.version,
                FALSE, <<"fraud">>, One, 0, 1, "none")
    /\ UNCHANGED shadowVars

StreamReturn(t) == PredictReturn(t, "none") /\ UNCHANGED shadowVars

InitStream == InitServe

NextStream ==
    \/ \E t \in EThreads : StreamRequest(t)
    \/ \E t \in EThreads : StreamReturn(t)
    \/ \E t \in EThreads : CheckCooldown(t)
    \/ \E t \in EThreads : CheckBacklog(t)
    \/ \E t \in EThreads : OpenTmp(t)
    \/ \E t \in EThreads : CloseTmp(t)
    \/ \E t \in EThreads : RenameTmp(t)
    \/ \E t \in EThreads : TouchMarker(t)
    \/ \E t \in EThreads : UtimeMarker(t)
    \/ Tick
    \/ WorkerPoll
    \/ WorkerFinish

SpecStream == InitStream /\ [][NextStream]_vars

\* the step in which the emit of the request of thread t has returned
Returns(t) == rPc[t] = "emitting" /\ rPc'[t] = "idle"

\* the request files that the handler's emits have added are no two of them
\* less than the cooldown apart
OnePerCooldown(times) ==
    \A a, b \in times : a = b \/ ~LessThanCooldownApart(a, b)

-----------------------------------------------------------------------------
(* api/main.py: POST /retrain, next to /predict requests under hard drift *)

\* the handler that answers "queued" whatever emit returned
RetrainStatus_AlwaysQueued(emitted) == 200

\* `if not emitted: raise HTTPException(status_code=429, ...)`
RetrainStatus(emitted) == IF emitted THEN 200 ELSE 429

\* the handler up to the call of emit; `available` is whether get_active
\* returned a bundle
RetrainStep(t, available) ==
    /\ UNCHANGED <<bundleVars, driftVars, callVars, triggerVars, restVars>>
    /\ rPc[t] = "idle" /\ ePc[t] = "idle"
    /\ IF available
       THEN /\ EmitEnter(t)
            /\ rPc' = [rPc EXCEPT ![t] = "retrain"]
            /\ rHeld' = [rHeld EXCEPT ![t] =
                            [status |-> 0, now |-> clock, after |-> lastOk]]
            /\ UNCHANGED lastResp
       ELSE /\ lastResp' = [status |-> 503, endpoint |-> "retrain"]
            /\ UNCHANGED <<rPc, rHeld, emitVars>>
    /\ UNCHANGED <<lastReq, hardWindows, created, queued>>

\* the handler after emit has returned, or the exception of emit leaving it
RetrainReturn(t) ==
    /\ UNCHANGED <<bundleVars, emitVars, driftVars, callVars, triggerVars, restVars>>
    /\ rPc[t] = "retrain" /\ ePc[t] = "idle"
    /\ rPc' = [rPc EXCEPT ![t] = "idle"]
    /\ rHeld' = [rHeld EXCEPT ![t] = NotHeld]
    /\ lastResp' = [status |-> IF eRet[t].value = "raise" THEN 500
                               ELSE RetrainStatus(eRet[t].value = "true"),
                    endpoint |-> "retrain"]
    /\ queued' = IF eRet[t].value = "true" THEN queued \cup {rHeld[t].now}
                 ELSE queued
    /\ UNCHANGED <<lastReq, hardWindows, created>>

RetrainRequest(t) == \E available \in BOOLEAN : RetrainStep(t, available)

InitRetrain == InitServe

NextRetrain ==
    \/ \E t \in EThreads : RetrainRequest(t)
    \/ \E t \in EThreads : RetrainReturn(t)
    \/ StreamRequest(ServeThread)
    \/ StreamReturn(ServeThread)
    \/ \E t \in EThreads : CheckCooldown(t)
    \/ \E t \in EThreads : CheckBacklog(t)
    \/ \E t \in EThreads : OpenTmp(t)
    \/ \E t \in EThreads : CloseTmp(t)
    \/ \E t \in EThreads : RenameTmp(t)
    \/ \E t \in EThreads : TouchMarker(t)
    \/ \E t \in EThreads : UtimeMarker(t)
    \/ Tick

SpecRetrain == InitRetrain /\ [][NextRetrain]_vars

\* the step in which the emit of the /retrain request of thread t has returned
RetrainReturns(t) == rPc[t] = "retrain" /\ rPc'[t] = "idle"

-----------------------------------------------------------------------------
(* api/main.py and modeling/predict.py: the shadow block of /predict.  One
   process serves a sequence of requests while the SHADOW pointer, the
   version directories and the shadow prediction do anything they can; a
   second process, started with no shadow configured, is then sent the same
   requests. *)

MaxShadowRequests == 4   \* requests sent to each process

\* states of SHADOW_MODEL.json: absent, not JSON, JSON that is no object, and
\* naming a version; and of the version directories: none or all complete
ShadowPointers ==
    {NoFile, File("garbage", <<>>), File("nonobject", <<>>), File("object", <<"a">>)}

ShadowDirs == {{}, Versions}

\* the sampling and the run on the shadow bundle: sampled out, a run that
\* agrees with the active bundle, one that disagrees, and predict_one raising
\* before the detector of the shadow bundle takes the row
ShadowOutcomes == {"skipped", "agree", "disagree", "raise"}

ShadowCases == [ptr : ShadowPointers, dirs : ShadowDirs, outcome : ShadowOutcomes]

\* SHADOW_MODEL.json is absent and no version can be loaded
NotConfigured == [ptr |-> NoFile, dirs |-> {}, outcome |-> "skipped"]

\* _read_pointer on a file whose content is c during the whole call
RECURSIVE ReadPointerValue(_, _)
ReadPointerValue(c, a) ==
    LET r == PointerAttempt(c, a)
    IN  IF r.res = "retry" THEN ReadPointerValue(c, a + 1) ELSE r

\* get_shadow: whether it raised, what it returned, and what it left cached
GetShadow(c, dirs, cachedBundle, cachedVersion) ==
    LET r == ReadPointerValue(c, 0)
        l == LoadVersionedBundle(r.version, dirs, 1)
        kept == [raised |-> FALSE, ret |-> cachedBundle, bundle |-> cachedBundle,
                 version |-> cachedVersion, fresh |-> FALSE]
    IN  IF r.res = "raise" THEN [kept EXCEPT !.raised = TRUE, !.ret = NoBundle]
        ELSE IF r.version = NoVersion THEN kept
        ELSE IF IsCachedVersion(cachedBundle, cachedVersion, r.version) THEN kept
        ELSE IF l.ok
        THEN [raised |-> FALSE, ret |-> l.bundle, bundle |-> l.bundle,
              version |-> r.version, fresh |-> TRUE]
        ELSE kept

\* lines 379-398: the state of the shadow bundle and of the shadow metrics
\* after the block, and what the block did
ShadowBlock(sc) ==
    LET g    == GetShadow(sc.ptr, sc.dirs, _shadow_bundle, _shadow_version)
        runs == ~g.raised /\ g.ret # NoBundle /\ sc.outcome # "skipped"
        rows == IF g.fresh THEN 0 ELSE shadowRows
    IN  [bundle   |-> g.bundle,
         version  |-> g.version,
         rows     |-> IF runs /\ sc.outcome # "raise" THEN rows + 1 ELSE rows,
         runs     |-> IF runs THEN SHADOW_RUNS + 1 ELSE SHADOW_RUNS,
         disagree |-> IF runs /\ sc.outcome = "disagree"
                      THEN SHADOW_DISAGREE + 1 ELSE SHADOW_DISAGREE,
         flag     |-> IF g.raised \/ (runs /\ sc.outcome = "raise")
                      THEN "failed"
                      ELSE IF runs THEN "run" ELSE "none"]

\* the requests sent: one that fails the schema check, one on which the
\* classifier raises, and valid ones
ShadowInputs ==
    { [payload |-> ("f1" :> "int"), version |-> ServeSchema.version,
       raises |-> FALSE, cls |-> <<>>, psi |-> 0],
      [payload |-> ("f1" :> "int") @@ ("f2" :> "float"), version |-> ServeSchema.version,
       raises |-> TRUE, cls |-> <<>>, psi |-> 0] }
    \cup
    { [payload |-> ("f1" :> "int") @@ ("f2" :> "float"), version |-> ServeSchema.version,
       raises |-> FALSE, cls |-> c[1], psi |-> c[2]] :
         c \in {<<<<"fraud">>, One>>, <<<<"non_fraud", "fraud">>, 0>>} }

\* the request leaves the handler before line 315
Stops(i) ==
    LET chk == SchemaCheck(FeatureNames, i.payload, i.version, ServeSchema)
    IN  chk.raised \/ ~chk.ok \/ i.raises

\* the shadow block has run: the manager and the metrics are as it left them
AfterBlock(b) ==
    /\ _shadow_bundle' = b.bundle
    /\ _shadow_version' = b.version
    /\ shadowRows' = b.rows
    /\ SHADOW_RUNS' = b.runs
    /\ SHADOW_DISAGREE' = b.disagree

\* what the shadow block can do in the current state
Blocks == {ShadowBlock(sc) : sc \in ShadowCases}

\* the handler with its shadow block b, up to the call of emit or to its end
ShadowServe(t, i, b) ==
    LET chk == Stops(i)
    IN  /\ PredictStep(t, i.payload, i.version, i.raises, i.cls, i.psi, 0, 1, b.flag)
        /\ IF rPc'[t] = "idle" /\ ~chk
           THEN AfterBlock(b)
           ELSE UNCHANGED <<_shadow_bundle, _shadow_version, shadowRows,
                            SHADOW_RUNS, SHADOW_DISAGREE>>

\* the handler after emit has returned, with its shadow block b
ShadowReturn(t, b) ==
        /\ PredictReturn(t, b.flag)
        /\ IF eRet[t].value # "raise"
           THEN AfterBlock(b)
           ELSE UNCHANGED <<_shadow_bundle, _shadow_version, shadowRows,
                            SHADOW_RUNS, SHADOW_DISAGREE>>

\* what a request leaves behind: the response, the detector of the active
\* bundle, the counter of the trigger and the queue directory
Observation ==
    [response |-> [lastResp EXCEPT !.ran.shadow = FALSE],
     drift    |-> [_buf |-> _buf, _since_last |-> _since_last,
                   _last_score |-> _last_score, _last_top |-> _last_top],
     trigger  |-> _hard_hits,
     emitted  |-> [marker |-> marker, tmpFile |-> tmpFile, reqFile |-> reqFile,
                   full |-> full]]

\* a request to the first process
ShadowedRequest(t) ==
    /\ serverRun = "shadowed"
    /\ Len(sent) < MaxShadowRequests
    /\ \A u \in EThreads : rPc[u] = "idle"
    /\ \E i \in ShadowInputs, b \in Blocks :
          /\ ShadowServe(t, i, b)
          /\ sent' = Append(sent, i)
          /\ IF rPc'[t] = "idle"
             THEN /\ obsShadowed' = Append(obsShadowed, Observation')
                  /\ casesSeen' = IF Stops(i) THEN casesSeen
                                  ELSE casesSeen \cup {b.flag}
             ELSE UNCHANGED <<obsShadowed, casesSeen>>
    /\ UNCHANGED <<serverRun, obsPlain>>

ShadowedReturn(t) ==
    /\ serverRun = "shadowed"
    /\ \E b \in Blocks :
          /\ ShadowReturn(t, b)
          /\ casesSeen' = IF eRet[t].value = "raise" THEN casesSeen
                          ELSE casesSeen \cup {b.flag}
    /\ obsShadowed' = Append(obsShadowed, Observation')
    /\ UNCHANGED <<serverRun, sent, obsPlain>>

\* the first process is stopped and the second is started: lifespan, on a
\* queue directory and a registry as the first process found them
Restart ==
    /\ serverRun = "shadowed"
    /\ Len(sent) = MaxShadowRequests
    /\ \A u \in EThreads : rPc[u] = "idle"
    /\ serverRun' = "plain"
    /\ rPc' = [t \in EThreads |-> "idle"]
    /\ rHeld' = [t \in EThreads |-> NotHeld]
    /\ lastReq' = NoRequest
    /\ lastResp' = NoResponse
    /\ hardWindows' = 0
    /\ created' = {}
    /\ queued' = {}
    /\ clock' = 0
    /\ marker' = NoTime
    /\ tmpFile' = [s \in Seconds |-> NoInode]
    /\ reqFile' = [s \in Seconds |-> NoInode]
    /\ full' = {}
    /\ ePc' = [t \in EThreads |-> "idle"]
    /\ eNow' = [t \in EThreads |-> 0]
    /\ eFd' = [t \in EThreads |-> NoInode]
    /\ eRet' = [t \in EThreads |-> NoReturn]
    /\ lastOk' = NoTime
    /\ closePair' = FALSE
    /\ overlap' = FALSE
    /\ _buf' = [i \in 1 .. WarmupRows |-> 0]
    /\ _since_last' = 0
    /\ _last_score' = 0
    /\ _last_top' = 1
    /\ dOut' = [drift_score |-> 0, top |-> 1, updated |-> TRUE, branch |-> "recomputed"]
    /\ ingested' = 0
    /\ rowsSince' = 0
    /\ _hard_hits' = 0
    /\ trig' = NoTrig
    /\ tHist' = <<>>
    /\ _shadow_bundle' = NoBundle
    /\ _shadow_version' = NoVersion
    /\ shadowRows' = 0
    /\ SHADOW_RUNS' = 0
    /\ SHADOW_DISAGREE' = 0
    /\ UNCHANGED <<bundleVars, callVars, window_size, stride, wPc, wReqs,
                   required_hard_windows, raceVars, workerVars, moreVars,
                   sent, obsShadowed, obsPlain, casesSeen>>

\* the next of the same requests, to the second process
PlainRequest(t) ==
    /\ serverRun = "plain"
    /\ Len(obsPlain) < Len(sent)
    /\ \A u \in EThreads : rPc[u] = "idle"
    /\ ShadowServe(t, sent[Len(obsPlain) + 1], ShadowBlock(NotConfigured))
    /\ obsPlain' = IF rPc'[t] = "idle" THEN Append(obsPlain, Observation')
                   ELSE obsPlain
    /\ UNCHANGED <<serverRun, sent, obsShadowed, casesSeen>>

PlainReturn(t) ==
    /\ serverRun = "plain"
    /\ ShadowReturn(t, ShadowBlock(NotConfigured))
    /\ obsPlain' = Append(obsPlain, Observation')
    /\ UNCHANGED <<serverRun, sent, obsShadowed, casesSeen>>

InitShadow == InitServe

NextShadow ==
    \/ ShadowedRequest(ServeThread)
    \/ ShadowedReturn(ServeThread)
    \/ Restart
    \/ PlainRequest(ServeThread)
    \/ PlainReturn(ServeThread)
    \/ \E t \in EThreads : CheckCooldown(t)
    \/ \E t \in EThreads : CheckBacklog(t)
    \/ \E t \in EThreads : OpenTmp(t)
    \/ \E t \in EThreads : CloseTmp(t)
    \/ \E t \in EThreads : RenameTmp(t)
    \/ \E t \in EThreads : TouchMarker(t)
    \/ \E t \in EThreads : UtimeMarker(t)

SpecShadow == InitShadow /\ [][NextShadow]_vars

\* C29: whatever the SHADOW pointer, the version directories and the shadow
\* prediction did while the first process served the requests, each request
\* leaves behind in the second process, which has no shadow configured, the
\* same response, the same detector state of the active bundle, the same
\* trigger counter and the same queue directory as in the first
C29_ShadowNeverAffectsServing ==
    \A n \in 1 .. Len(obsPlain) : obsPlain[n] = obsShadowed[n]

\* both processes have served all the requests, one of them emitted a retrain
\* request, and the shadow blocks of the first have run, failed and been idle
C29_Witness ==
    /\ serverRun = "plain"
    /\ Len(obsPlain) = MaxShadowRequests
    /\ casesSeen = Shadows
    /\ \E s \in Seconds : obsPlain[MaxShadowRequests].emitted.reqFile[s] # NoInode

-----------------------------------------------------------------------------
(* uncertainty/conformal.py: prediction_set *)

ProbOne == 4   \* the value 1.0 of a probability and of qhat, in quarters

\* calibrations: qhat from 0 to above 1, and the two labels in either order
Calibs ==
    [qhat : 0 .. ProbOne + 1,
     labels : {<<"non_fraud", "fraud">>, <<"fraud", "non_fraud">>}]

\* probability pairs, whether or not they add up to 1
ProbPairs == (0 .. ProbOne) \X (0 .. ProbOne)

\* the comparison that leaves out a probability equal to the threshold
Kept_Strict(p, thresh) == p > thresh

\* `if float(probas_one[i]) >= thresh:`
Kept(p, thresh) == p >= thresh

\* the loop of prediction_set from label i on
RECURSIVE KeepFrom(_, _, _, _)
KeepFrom(labels, probas_one, thresh, i) ==
    IF i > Len(labels) THEN <<>>
    ELSE (IF Kept(probas_one[i], thresh) THEN <<labels[i]>> ELSE <<>>)
             \o KeepFrom(labels, probas_one, thresh, i + 1)

PredictionSet(calib, probas_one) ==
    LET thresh == ProbOne - calib.qhat
    IN  KeepFrom(calib.labels, probas_one, thresh, 1)

ConformalInputs == [fn : {"prediction_set"}, calib : Calibs, probas_one : ProbPairs]

\* the call prediction_set(**args)
CallPredictionSet ==
    /\ UNCHANGED outsideCall
    /\ args.fn = "prediction_set"
    /\ result = NotCalled
    /\ result' = [fn |-> "prediction_set",
                  out |-> PredictionSet(args.calib, args.probas_one)]
    /\ UNCHANGED args

InitConformal ==
    /\ ServeIdle /\ RestIdle
    /\ BundleIdle /\ activePtr = NoFile /\ versionsOk = {}
    /\ EmitIdle
    /\ DriftIdle
    /\ TriggerIdle
    /\ args \in ConformalInputs
    /\ result = NotCalled

NextConformal == CallPredictionSet

SpecConformal == InitConformal /\ [][NextConformal]_vars

\* C30: for every calibration with two labels and every probability pair,
\* label c is in the set prediction_set returns exactly when
\* p[c] >= 1 - qhat, and the set is a sub-list of the labels, in their order,
\* of 0, 1 or 2 elements
C30_PredictionSet ==
    result.fn = "prediction_set" =>
        LET o == result.out
            labels == args.calib.labels
            p == args.probas_one
            In(c) == \E k \in 1 .. Len(o) : o[k] = labels[c]
        IN  /\ \A c \in 1 .. 2 : In(c) <=> p[c] >= ProbOne - args.calib.qhat
            /\ o \in {<<>>, <<labels[1]>>, <<labels[2]>>, <<labels[1], labels[2]>>}
            /\ Len(o) \in {0, 1, 2}

\* a set of one label whose probability is exactly 1 - qhat, the other label
\* being just below it
C30_Witness ==
    /\ result.fn = "prediction_set"
    /\ args.calib.labels = <<"non_fraud", "fraud">>
    /\ args.probas_one[2] = ProbOne - args.calib.qhat
    /\ args.probas_one[1] = ProbOne - args.calib.qhat - 1
    /\ result.out = <<"fraud">>

-----------------------------------------------------------------------------
(* uncertainty/conformal.py: fit_split_conformal and _conformal_quantile.
   Probabilities and scores are in quarters; alpha is a / AlphaDen. *)

MaxScores == 3   \* rows of the calibration set
AlphaDen  == 4   \* alpha is one of 1/AlphaDen .. (AlphaDen - 1)/AlphaDen

CeilDiv(a, b) == (a + b - 1) \div b

\* np.quantile sorts its input
RECURSIVE InsertScore(_, _)
InsertScore(s, sorted) ==
    IF sorted = <<>> \/ s <= Head(sorted) THEN <<s>> \o sorted
    ELSE <<Head(sorted)>> \o InsertScore(s, Tail(sorted))

RECURSIVE SortScores(_)
SortScores(scores) ==
    IF scores = <<>> THEN <<>>
    ELSE InsertScore(Head(scores), SortScores(Tail(scores)))

\* `q = np.ceil((n + 1) * (1 - alpha)) / n; q = min(q, 1.0)`: the numerator
\* of q over n
QLevel(n, a) == Min(CeilDiv((n + 1) * (AlphaDen - a), AlphaDen), n)

\* np.quantile(..., method="higher"): the virtual index (n - 1) * q of the
\* sorted array, rounded up; q is k / n and the index counts from 0
HigherIndex(n, k) == CeilDiv((n - 1) * k, n)

ConformalQuantile(scores, a) ==
    LET n == Len(scores)
    IN  SortScores(scores)[HigherIndex(n, QLevel(n, a)) + 1]

\* `scores = 1.0 - true_probs; qhat = _conformal_quantile(scores, alpha)`
FitSplitConformal(true_probs, a) ==
    ConformalQuantile([i \in 1 .. Len(true_probs) |-> ProbOne - true_probs[i]], a)

\* calibration sets: the probability of the true label of each row
TrueProbs == UNION { [1 .. n -> 0 .. ProbOne] : n \in 1 .. MaxScores }

QuantileInputs ==
    [fn : {"fit_split_conformal"}, true_probs : TrueProbs, alpha : 1 .. AlphaDen - 1]

\* the call fit_split_conformal(**args)
CallFitSplitConformal ==
    /\ UNCHANGED outsideCall
    /\ args.fn = "fit_split_conformal"
    /\ result = NotCalled
    /\ result' = [fn |-> "fit_split_conformal",
                  qhat |-> FitSplitConformal(args.true_probs, args.alpha)]
    /\ UNCHANGED args

InitQuantile ==
    /\ ServeIdle /\ RestIdle
    /\ BundleIdle /\ activePtr = NoFile /\ versionsOk = {}
    /\ EmitIdle
    /\ DriftIdle
    /\ TriggerIdle
    /\ args \in QuantileInputs
    /\ result = NotCalled

NextQuantile == CallFitSplitConformal

SpecQuantile == InitQuantile /\ [][NextQuantile]_vars

\* the scores of the calibration set of the call
CalibScores == {ProbOne - args.true_probs[i] : i \in 1 .. Len(args.true_probs)}

\* rows of the calibration set whose score is at most s
AtMost(s) ==
    Cardinality({i \in 1 .. Len(args.true_probs) : ProbOne - args.true_probs[i] <= s})

\* the empirical CDF at s is at least q_level = k / n
CdfReaches(s) == AtMost(s) >= QLevel(Len(args.true_probs), args.alpha)

\* C31: qhat is the smallest calibration score whose empirical CDF is at
\* least q_level = ceil((n+1)(1-alpha))/n clamped to 1; it is one of the
\* calibration scores and lies in [0,1]
C31_ConformalQuantile ==
    result.fn = "fit_split_conformal" =>
        /\ result.qhat \in CalibScores
        /\ result.qhat \in 0 .. ProbOne
        /\ CdfReaches(result.qhat)
        /\ \A s \in CalibScores : CdfReaches(s) => result.qhat <= s

-----------------------------------------------------------------------------
(* modeling/predict.py: get_active and get_shadow called by several request
   threads while write_active_model rewrites the ACTIVE pointer once, from
   the version that is loaded to another one that loads. *)

OldVersion == <<"a">>
NewVersion == <<"b">>

\* the bundle the lifespan loaded
OldBundle == [model_version |-> OldVersion, id |-> 1]

\* states of SHADOW_MODEL.json during the swap: absent, or naming the
\* candidate the worker is promoting
SwapShadowPointers == {NoFile, File("object", NewVersion)}

\* write_active_model(new): the one rewrite
SwapWriteOpen ==
    /\ activePtr = File("object", OldVersion)
    /\ SaveJsonOpen(NewVersion)

\* get_shadow: the whole call holds the lock of the manager
ShadowCall(t, c) ==
    /\ pc[t] = "idle"
    /\ LockFree(lockHolder)
    /\ LET g == GetShadow(c, versionsOk, _shadow_bundle, _shadow_version)
       IN  /\ _shadow_bundle' = g.bundle
           /\ _shadow_version' = g.version
           /\ shadowRows' = IF g.fresh THEN 0 ELSE shadowRows
           /\ result' = [fn |-> "get_shadow", raised |-> g.raised, out |-> g.ret,
                         read |-> c]
    /\ UNCHANGED <<bundleVars, emitVars, driftVars, triggerVars, serveVars, raceVars,
                   workerVars, moreVars, args, SHADOW_RUNS, SHADOW_DISAGREE,
                   serverRun, sent, obsShadowed, obsPlain, casesSeen>>

InitSwap ==
    /\ ServeIdle /\ RestIdle
    /\ DriftIdle
    /\ CallIdle
    /\ TriggerIdle
    /\ EmitIdle
    /\ activePtr = File("object", OldVersion)
    /\ versionsOk = {OldVersion, NewVersion}
    /\ writerPc = "idle"
    /\ writerOld = NoFile
    /\ writerNew = NoFile
    /\ _active_version = OldVersion
    /\ _active_bundle = OldBundle
    /\ lockHolder = NoHolder
    /\ loadCount = 1
    /\ lastLoaded = OldVersion
    /\ pc = [t \in Callers |-> "idle"]
    /\ attempt = 0
    /\ ver = NoVersion
    /\ pre = NoPair
    /\ seen = NoSeen
    /\ ret = NoCall
    /\ phase = "ready"
    /\ http = NoHttp

NextSwap ==
    \/ \E t \in Threads : PredictBegin(t)
    \/ \E t \in Threads : ReadPointer(t)
    \/ \E t \in Threads : LoadBundle(t)
    \/ \E t \in Threads, c \in SwapShadowPointers : ShadowCall(t, c)
    \/ SwapWriteOpen
    \/ SaveJsonClose

SpecSwap == InitSwap /\ [][NextSwap]_vars

\* C32: while the ACTIVE pointer is rewritten once to a version that loads,
\* every get_active call returns the bundle that was loaded before or the
\* bundle of the new version, the new version is loaded once, every call
\* that returns the new version returns that one object, a call that read
\* the complete new pointer returns it, and a get_shadow call between them
\* returns nothing or the shadow bundle
C32_SwapsAreAtomic ==
    /\ loadCount <= 2
    /\ CallDone =>
          /\ ret.outcome = "bundle"
          /\ \/ ret.bundle = OldBundle /\ ~ret.loadTried
             \/ /\ ret.bundle = [model_version |-> NewVersion, id |-> 2]
                /\ ret.bundle = _active_bundle
                /\ _active_version = NewVersion
                /\ loadCount = 2
          /\ seen.content = File("object", NewVersion)
                => ret.bundle.model_version = NewVersion
          /\ _active_bundle = OldBundle => _active_version = OldVersion
    /\ result.fn = "get_shadow" =>
          /\ ~result.raised
          /\ result.out \in {NoBundle, _shadow_bundle}
          /\ result.out # _active_bundle

\* one call has loaded the new version, a later call has returned it from
\* the cache, and a get_shadow call has returned a shadow bundle
C32_Witness ==
    /\ CallDone /\ ~ret.loadTried
    /\ ret.bundle = [model_version |-> NewVersion, id |-> 2]
    /\ result.fn = "get_shadow" /\ result.out # NoBundle

-----------------------------------------------------------------------------
(* drift/detector.py: update_and_score called by several request threads on
   the detector of one bundle.  Nothing in update_and_score, predict_one or
   the handler takes a lock, so the threads interleave between the reads and
   the writes of the detector's fields. *)

MaxRaceCalls == 4   \* calls of update_and_score in one run

\* no call is inside update_and_score
Quiescent == \A t \in EThreads : uPc[t] = "idle"

\* the thread moves on
Goto(t, to) == uPc' = [uPc EXCEPT ![t] = to]

\* self._buf.append(x_row)
RaceAppend(t) ==
    /\ UNCHANGED outsideRace
    /\ uPc[t] = "idle"
    /\ ingested < MaxRaceCalls
    /\ ingested' = ingested + 1
    /\ _buf' = Append(_buf, ingested + 1)
    /\ appended' = Append(appended, ingested + 1)
    /\ Goto(t, "load")
    /\ UNCHANGED <<window_size, stride, _since_last, _last_score, _last_top,
                   dOut, rowsSince, uLoc, recomputes>>

\* self._since_last += 1 : the read
RaceLoad(t) ==
    /\ UNCHANGED outsideRace
    /\ uPc[t] = "load"
    /\ uLoc' = [uLoc EXCEPT ![t].since = _since_last]
    /\ Goto(t, "store")
    /\ UNCHANGED <<driftVars, appended, recomputes>>

\* self._since_last += 1 : the write
RaceStore(t) ==
    /\ UNCHANGED outsideRace
    /\ uPc[t] = "store"
    /\ _since_last' = uLoc[t].since + 1
    /\ Goto(t, "slice")
    /\ UNCHANGED <<window_size, stride, _buf, _last_score, _last_top, dOut,
                   ingested, rowsSince, uLoc, appended, recomputes>>

\* if len(self._buf) > self.window_size: the slice self._buf[-window_size:]
RaceSlice(t) ==
    /\ UNCHANGED outsideRace
    /\ uPc[t] = "slice"
    /\ IF Len(_buf) > window_size
       THEN /\ uLoc' = [uLoc EXCEPT ![t].slice = LastRows(_buf, window_size)]
            /\ Goto(t, "assign")
       ELSE /\ Goto(t, "warmup")
            /\ UNCHANGED uLoc
    /\ UNCHANGED <<driftVars, appended, recomputes>>

\* self._buf = <the slice>
RaceAssign(t) ==
    /\ UNCHANGED outsideRace
    /\ uPc[t] = "assign"
    /\ _buf' = uLoc[t].slice
    /\ Goto(t, "warmup")
    /\ UNCHANGED <<window_size, stride, _since_last, _last_score, _last_top,
                   dOut, ingested, rowsSince, uLoc, appended, recomputes>>

\* if len(self._buf) < max(100, self.stride): return
RaceWarmup(t) ==
    /\ UNCHANGED outsideRace
    /\ uPc[t] = "warmup"
    /\ IF InWarmup(Len(_buf), stride)
       THEN /\ dOut' = [drift_score |-> 0, top |-> NoTop, updated |-> FALSE,
                        branch |-> "warmup"]
            /\ Goto(t, "idle")
       ELSE /\ Goto(t, "stride")
            /\ UNCHANGED dOut
    /\ UNCHANGED <<window_size, stride, _buf, _since_last, _last_score,
                   _last_top, ingested, rowsSince, uLoc, appended, recomputes>>

\* if self._since_last < self.stride: return
RaceStride(t) ==
    /\ UNCHANGED outsideRace
    /\ uPc[t] = "stride"
    /\ IF StrideNotReached(_since_last, stride)
       THEN /\ dOut' = [drift_score |-> _last_score, top |-> _last_top,
                        updated |-> FALSE, branch |-> "cached"]
            /\ Goto(t, "idle")
       ELSE /\ Goto(t, "reset")
            /\ UNCHANGED dOut
    /\ UNCHANGED <<window_size, stride, _buf, _since_last, _last_score,
                   _last_top, ingested, rowsSince, uLoc, appended, recomputes>>

\* self._since_last = 0
RaceReset(t) ==
    /\ UNCHANGED outsideRace
    /\ uPc[t] = "reset"
    /\ _since_last' = 0
    /\ Goto(t, "compute")
    /\ UNCHANGED <<window_size, stride, _buf, _last_score, _last_top, dOut,
                   ingested, rowsSince, uLoc, appended, recomputes>>

\* the recomputation, to the return of the fresh result
RaceCompute(t) ==
    /\ UNCHANGED outsideRace
    /\ uPc[t] = "compute"
    /\ \E psi \in {0, One}, top \in Tops :
          /\ _last_score' = DriftScore(psi, 0)
          /\ _last_top' = top
          /\ dOut' = [drift_score |-> DriftScore(psi, 0), top |-> top,
                      updated |-> TRUE, branch |-> "recomputed"]
    /\ recomputes' = recomputes + 1
    /\ Goto(t, "idle")
    /\ UNCHANGED <<window_size, stride, _buf, _since_last, ingested, rowsSince,
                   uLoc, appended>>

InitRace ==
    /\ ServeIdle /\ RestIdle
    /\ BundleIdle /\ activePtr = NoFile /\ versionsOk = {}
    /\ EmitIdle
    /\ CallIdle
    /\ TriggerIdle
    /\ DriftWarm

NextRace ==
    \/ \E t \in EThreads : RaceAppend(t)
    \/ \E t \in EThreads : RaceLoad(t)
    \/ \E t \in EThreads : RaceStore(t)
    \/ \E t \in EThreads : RaceSlice(t)
    \/ \E t \in EThreads : RaceAssign(t)
    \/ \E t \in EThreads : RaceWarmup(t)
    \/ \E t \in EThreads : RaceStride(t)
    \/ \E t \in EThreads : RaceReset(t)
    \/ \E t \in EThreads : RaceCompute(t)

SpecRace == InitRace /\ [][NextRace]_vars

\* the rows a detector that took the calls one at a time would hold
SerialRows == LastRows([i \in 1 .. WarmupRows |-> 0] \o appended, window_size)

\* C21: concurrent update_and_score calls on one detector are serialized: no
\* appended row is lost, _since_last counts every call, the buffer bound
\* holds, and each stride boundary causes exactly one recomputation
C21_DetectorSerialized ==
    Quiescent =>
        /\ _buf = SerialRows
        /\ Len(_buf) <= window_size
        /\ _since_last = ingested % stride
        /\ recomputes = ingested \div stride

-----------------------------------------------------------------------------
(* scripts/watcher.py: the retrain worker.  Times are in half seconds, so
   that a configured cooldown can have a fractional part. *)

MaxArrivals   == 3   \* request files added to the queue in one run
MaxWorkerTime == 4   \* the worker's clock stops here

Unit == 2            \* half seconds in a second

\* the version that serves when the worker starts
FirstVersion == 1

\* retrain.cooldown_seconds and promote.cooldown_seconds: 1 s and 1.5 s
Cooldowns == {Unit, Unit + 1}

\* the configurations: whole and fractional cooldowns, a promotion cooldown
\* longer than the retrain cooldown, and one without auto_promote
Configs ==
    { [retrain_cooldown |-> c, promote_cooldown |-> c, auto_promote |-> TRUE] :
        c \in Cooldowns }
    \cup
    { [retrain_cooldown |-> Unit, promote_cooldown |-> 2 * Unit,
       auto_promote |-> TRUE],
      [retrain_cooldown |-> Unit, promote_cooldown |-> Unit,
       auto_promote |-> FALSE] }

\* avg_cost_per_txn in hundredths, max_cost_increase in percent
BaselineCost    == 100
MaxCostIncrease == 5
CandCosts       == {105, 106}

\* the statement of _handle_request or _promote that raises, if one does
Faults == {"none", "prepare", "train", "eval", "report", "shadow",
           "retrain_stamp", "rollback", "active", "promotion_stamp"}

\* int(seconds)
IntSeconds(c) == (c \div Unit) * Unit

\* registry._read_pointer: None for a file that is absent or does not parse
ReadVersion(file) == IF file > NoPointer THEN file ELSE NoPointer

\* save_json that raises: before it opened the file, or after it truncated it
FailedWrite(old, tornValue, torn) == IF torn THEN tornValue ELSE old

\* sorted(...)[0]
Smallest(listed) == CHOOSE r \in listed : \A q \in listed : r <= q

\* the extras that are never dropped
Extras_None(listed) == {}

\* reqs[1:]
Extras(listed) == listed \ {Smallest(listed)}

\* a cooldown that never ends once a stamp has been written
TrainCooldownOk_Never(stamp, now, cfg) == stamp = NoStamp

\* _train_cooldown_ok
TrainCooldownOk(stamp, now, cfg) ==
    IF stamp = NoStamp THEN TRUE
    ELSE IF stamp = TornStamp THEN TRUE
    ELSE now - stamp >= IntSeconds(cfg.retrain_cooldown)

\* _promotion_gate
PromotionGate(stamp, now, cfg, cand_cost, base_cost) ==
    IF stamp.ts >= 0 /\ now - stamp.ts < IntSeconds(cfg.promote_cooldown)
    THEN [ok |-> FALSE, reason |-> "PROMOTION_COOLDOWN"]
    ELSE IF cand_cost * 100 > base_cost * (100 + MaxCostIncrease)
    THEN [ok |-> FALSE, reason |-> "COST_REGRESSION"]
    ELSE [ok |-> TRUE, reason |-> "PASSED"]

\* the promotion that does not look at the gate
ShouldPromote_IgnoresGate(ok, auto_promote) == auto_promote

\* `if ok and bool(w.promote.get("auto_promote", True)):`
ShouldPromote(ok, auto_promote) == ok /\ auto_promote

\* every request ends under processed/
Destination_AlwaysProcessed(raised) == "processed"

\* req_path.replace(dest) of _handle_request, or the one of the except clause
Destination(raised) == IF raised THEN "failed" ELSE "processed"

\* _promote with its two pointer writes in the other order
PromoteOrder_ActiveFirst == <<"active", "rollback", "promotion_stamp">>

\* the writes of _promote in the order of its statements: write_rollback_model,
\* write_active_model, save_json of last_promotion.json
PromoteOrder == <<"rollback", "active", "promotion_stamp">>

\* the writes of _promote up to and including `step`
UpTo(step) ==
    LET k == CHOOSE i \in 1 .. Len(PromoteOrder) : PromoteOrder[i] = step
    IN  {PromoteOrder[i] : i \in 1 .. k}

\* the write `step` of _promote returned: neither it nor a write before it
\* raised
Completed(step, fault) == fault \notin UpTo(step)

\* the emitter adds a request file; its name is later than every earlier one
Arrive ==
    /\ UNCHANGED outsideWorker
    /\ arrived < MaxArrivals
    /\ arrived' = arrived + 1
    /\ requests_dir' = requests_dir \cup {arrived + 1}
    /\ UNCHANGED <<wcfg, wclock, processed_dir, failed_dir, reports, ptr,
                   last_retrain, last_promotion, trained, loopPc, reqs, iter,
                   lastProm>>

Tock ==
    /\ UNCHANGED outsideWorker
    /\ wclock < MaxWorkerTime
    /\ wclock' = wclock + 1
    /\ UNCHANGED <<wcfg, arrived, requests_dir, processed_dir, failed_dir,
                   reports, ptr, last_retrain, last_promotion, trained, loopPc,
                   reqs, iter, lastProm>>

\* reqs = _list_requests(...); `if not reqs: sleep; continue`
LoopList ==
    /\ UNCHANGED outsideWorker
    /\ loopPc = "list"
    /\ reqs' = requests_dir
    /\ iter' = [NoIteration EXCEPT !.listed = requests_dir]
    /\ loopPc' = IF requests_dir = {} THEN "list" ELSE "cooldown"
    /\ UNCHANGED <<wcfg, wclock, arrived, requests_dir, processed_dir,
                   failed_dir, reports, ptr, last_retrain, last_promotion,
                   trained, lastProm>>

\* `if not _train_cooldown_ok(w): sleep; continue`
LoopCooldown ==
    /\ UNCHANGED outsideWorker
    /\ loopPc = "cooldown"
    /\ loopPc' = IF TrainCooldownOk(last_retrain, wclock, wcfg)
                 THEN "handle" ELSE "list"
    /\ iter' = [iter EXCEPT !.inCooldown =
                   /\ last_retrain >= 0
                   /\ wclock - last_retrain < wcfg.retrain_cooldown]
    /\ UNCHANGED <<wcfg, wclock, arrived, requests_dir, processed_dir,
                   failed_dir, reports, ptr, last_retrain, last_promotion,
                   trained, reqs, lastProm>>

\* _handle_request(w, reqs[0]) inside the try of main, and its except clause;
\* `moved` is false when the replace() of the except clause raises as well
\* (the exception is passed over and the file stays where it is)
Handle(fault, torn, cand_cost, moved) ==
    LET req_path  == Smallest(reqs)
        cand      == FirstVersion + trained + 1
        trainedOk == fault \notin {"prepare", "train"}
        active    == ReadVersion(ptr.active)
        evalOk    == trainedOk /\ active # NoPointer /\ fault # "eval"
        reportOk  == evalOk /\ fault # "report"
        shadowOk  == reportOk /\ fault # "shadow"
        stampOk   == shadowOk /\ fault # "retrain_stamp"
        gate      == PromotionGate(last_promotion, wclock, wcfg, cand_cost,
                                   BaselineCost)
        promoting == stampOk /\ ShouldPromote(gate.ok, wcfg.auto_promote)
        rollbackOk == promoting /\ Completed("rollback", fault)
        activeOk   == promoting /\ Completed("active", fault)
        promStampOk == promoting /\ Completed("promotion_stamp", fault)
        raised    == ~stampOk \/ (promoting /\ ~promStampOk)
        dest      == Destination(raised)
        left      == raised /\ ~moved
    IN  /\ UNCHANGED outsideWorker
        /\ loopPc = "handle"
        /\ loopPc' = "drop"
        /\ trained' = IF trainedOk THEN trained + 1 ELSE trained
        /\ reports' = IF reportOk THEN reports \cup {cand} ELSE reports
        /\ ptr' =
             [shadow |->
                 IF shadowOk THEN cand
                 ELSE IF reportOk
                 THEN FailedWrite(ptr.shadow, TornPointer, torn)
                 ELSE ptr.shadow,
              rollback |->
                 IF rollbackOk THEN active
                 ELSE IF promoting /\ fault = "rollback"
                 THEN FailedWrite(ptr.rollback, TornPointer, torn)
                 ELSE ptr.rollback,
              active |->
                 IF activeOk THEN cand
                 ELSE IF promoting /\ fault = "active"
                 THEN FailedWrite(ptr.active, TornPointer, torn)
                 ELSE ptr.active]
        /\ last_retrain' =
             IF stampOk THEN wclock
             ELSE IF shadowOk THEN FailedWrite(last_retrain, TornStamp, torn)
             ELSE last_retrain
        /\ last_promotion' =
             IF promStampOk THEN [ts |-> wclock, active_version |-> cand]
             ELSE IF promoting /\ fault = "promotion_stamp"
             THEN FailedWrite(last_promotion,
                              [ts |-> TornStamp, active_version |-> NoPointer],
                              torn)
             ELSE last_promotion
        /\ requests_dir' = IF left THEN requests_dir ELSE requests_dir \ {req_path}
        /\ processed_dir' = IF dest = "processed"
                            THEN processed_dir \cup {req_path} ELSE processed_dir
        /\ failed_dir' = IF dest = "failed" /\ ~left
                         THEN failed_dir \cup {req_path} ELSE failed_dir
        /\ iter' = [iter EXCEPT
                      !.handled = req_path, !.raised = raised,
                      !.gate = IF stampOk THEN gate.reason ELSE "none",
                      !.promoted = activeOk,
                      !.cand = IF trainedOk THEN cand ELSE NoPointer,
                      !.cost = cand_cost]
        /\ lastProm' =
             IF activeOk
             THEN [n |-> lastProm.n + 1, ts |-> wclock, from |-> active,
                   to |-> cand,
                   close |-> \/ lastProm.close
                             \/ /\ lastProm.n > 0
                                /\ wclock - lastProm.ts < wcfg.promote_cooldown]
             ELSE lastProm
        /\ UNCHANGED <<wcfg, wclock, arrived, reqs>>

LoopHandle ==
    \E fault \in Faults, torn \in BOOLEAN, cand_cost \in CandCosts :
        Handle(fault, torn, cand_cost, TRUE)

\* `for extra in reqs[1:]: extra.unlink()`, then the sleep
LoopDrop ==
    /\ UNCHANGED outsideWorker
    /\ loopPc = "drop"
    /\ requests_dir' = requests_dir \ Extras(reqs)
    /\ loopPc' = "list"
    /\ UNCHANGED <<wcfg, wclock, arrived, processed_dir, failed_dir, reports,
                   ptr, last_retrain, last_promotion, trained, reqs, iter,
                   lastProm>>

InitWorker ==
    /\ ServeIdle /\ RaceIdle /\ ShadowIdle /\ MoreIdle
    /\ BundleIdle /\ activePtr = NoFile /\ versionsOk = {}
    /\ EmitIdle
    /\ CallIdle
    /\ TriggerIdle
    /\ DriftIdle
    /\ WorkerNew
    /\ wcfg \in Configs
    /\ arrived = 0
    /\ requests_dir = {}
    /\ processed_dir = {}
    /\ failed_dir = {}
    /\ reports = {}
    /\ ptr \in [active : {FirstVersion, NoPointer}, shadow : {NoPointer},
                rollback : {NoPointer}]
    /\ last_retrain = NoStamp
    /\ last_promotion = [ts |-> NoStamp, active_version |-> NoPointer]

NextWorker ==
    \/ Arrive
    \/ Tock
    \/ LoopList
    \/ LoopCooldown
    \/ LoopHandle
    \/ LoopDrop

SpecWorker == InitWorker /\ [][NextWorker]_vars

\* the step in which the worker handles the request it took
Handles == loopPc = "handle" /\ loopPc' # "handle"

\* the iteration is over and it handled a request
Handled == loopPc = "list" /\ iter.handled # 0

\* C22: in an iteration in which now - last_retrain_ts is less than
\* retrain.cooldown_seconds the worker consumes nothing: it goes back to
\* listing without moving or deleting a request, training or writing a pointer
C22_CooldownConsumesNothing == iter.inCooldown => loopPc = "list"

C25_PromotionGate ==
    [][ (Handles /\ iter'.gate # "none") =>
          LET stampClose == /\ last_promotion.ts >= 0
                            /\ wclock - last_promotion.ts < wcfg.promote_cooldown
              costOk == iter'.cost * 100 <= BaselineCost * (100 + MaxCostIncrease)
              passes == wcfg.auto_promote /\ ~stampClose /\ costOk
          IN  /\ iter'.promoted => passes
              /\ (passes /\ ~iter'.raised) => iter'.promoted
              /\ ~lastProm'.close
      ]_vars

\* C26: when the gate rejects the candidate or auto_promote is disabled, the
\* report is written and SHADOW names the candidate, ACTIVE, ROLLBACK and
\* last_promotion.json are as before, and the request is under processed/
C26_RejectionFrame ==
    [][ (Handles /\ iter'.gate # "none"
                 /\ (iter'.gate # "PASSED" \/ ~wcfg.auto_promote)) =>
          /\ iter'.cand \in reports'
          /\ ptr'.shadow = iter'.cand
          /\ ptr'.active = ptr.active
          /\ ptr'.rollback = ptr.rollback
          /\ last_promotion' = last_promotion
          /\ iter'.handled \in processed_dir'
          /\ iter'.handled \notin requests_dir' \cup failed_dir'
      ]_vars

\* a candidate refused by the promotion cooldown after an earlier promotion
C26_Witness ==
    /\ iter.gate = "PROMOTION_COOLDOWN"
    /\ lastProm.n > 0
    /\ ptr.shadow = iter.cand
    /\ ptr.active = lastProm.to
    /\ iter.handled \in processed_dir

\* C27: after the worker promotes c while ACTIVE names a, ROLLBACK names a,
\* ACTIVE names c and last_promotion.json carries c; ROLLBACK always names
\* the version that was ACTIVE before the most recent promotion
C27_RollbackIsPreviousActive ==
    /\ (loopPc = "drop" /\ iter.promoted /\ ~iter.raised) =>
          /\ ptr.rollback = lastProm.from
          /\ ptr.active = iter.cand
          /\ last_promotion = [ts |-> lastProm.ts, active_version |-> iter.cand]
    /\ lastProm.n > 0 => ptr.rollback = lastProm.from

\* C34: in a promotion with a readable ACTIVE pointer naming a, ROLLBACK is
\* written before ACTIVE: in whatever state the promotion leaves the pointers,
\* also when one of its writes raised, ACTIVE naming the candidate implies
\* ROLLBACK naming a
C34_RollbackWrittenFirst ==
    [][ (Handles /\ ReadVersion(ptr.active) # NoPointer
                 /\ ptr'.active = iter'.cand)
            => ptr'.rollback = ReadVersion(ptr.active)
      ]_vars

\* the promotion stopped between its two pointer writes: ROLLBACK names the
\* ACTIVE version, ACTIVE still names it too, and the candidate is only SHADOW
C34_Witness ==
    /\ loopPc = "drop" /\ iter.raised /\ ~iter.promoted
    /\ iter.gate = "PASSED"
    /\ ptr.shadow = iter.cand
    /\ ptr.active # NoPointer
    /\ ptr.rollback = ptr.active

\* C36 (as claimed): when the handling of a request raises, so that the file
\* goes to failed/, ACTIVE and ROLLBACK name the versions they named before
C36_FailedLeavesNoPromotion ==
    [][ (Handles /\ iter'.raised /\ iter'.handled \in failed_dir') =>
          /\ ReadVersion(ptr'.active) = ReadVersion(ptr.active)
          /\ ReadVersion(ptr'.rollback) = ReadVersion(ptr.rollback)
      ]_vars

-----------------------------------------------------------------------------
(* scripts/promote.py --rollback, run by an operator while the queue is empty
   and the worker is between two iterations *)

MaxScriptRuns == 2   \* runs of the script in one behaviour

\* the versions read_active_model and read_rollback_model return
Pair(p) == [active |-> ReadVersion(p.active), rollback |-> ReadVersion(p.rollback)]

\* the statement of the script that raises, if one does
ScriptFaults == {"none", "active", "rollback"}

\* a script that leaves ROLLBACK as it is
NewRollback_Unchanged(cur, old) == old

\* `if cur: write_rollback_model(rollback_path, cur)`
NewRollback(cur, old) == IF cur # NoPointer THEN cur ELSE old

\* one run of `promote.py --rollback`
PromoteRollback(fault, torn) ==
    LET rb       == ReadVersion(ptr.rollback)
        cur      == ReadVersion(ptr.active)
        found    == rb # NoPointer
        activeOk == found /\ fault # "active"
        failsAtRollback == activeOk /\ cur # NoPointer /\ fault = "rollback"
        exit     == IF ~found THEN "no_rollback"
                    ELSE IF ~activeOk \/ failsAtRollback THEN "raised"
                    ELSE "ok"
        again    == rbk.exit = "ok" /\ rbk.runs = 1 /\ rbk.at = trained
    IN  /\ UNCHANGED <<bundleVars, emitVars, driftVars, callVars, triggerVars,
                       serveVars, raceVars, shadowVars, hitVars, startVars>>
        /\ loopPc = "list" /\ requests_dir = {}
        /\ rbk.total < MaxScriptRuns
        /\ ptr' =
             [shadow |-> ptr.shadow,
              active |->
                 IF ~found THEN ptr.active
                 ELSE IF activeOk THEN rb
                 ELSE FailedWrite(ptr.active, TornPointer, torn),
              rollback |->
                 IF ~activeOk THEN ptr.rollback
                 ELSE IF failsAtRollback
                 THEN FailedWrite(ptr.rollback, TornPointer, torn)
                 ELSE NewRollback(cur, ptr.rollback)]
        /\ rbk' = [total |-> rbk.total + 1,
                   exit  |-> exit,
                   at    |-> trained,
                   runs  |-> IF exit # "ok" THEN 0 ELSE IF again THEN 2 ELSE 1,
                   start |-> IF exit = "ok" /\ again THEN rbk.start ELSE Pair(ptr)]
        /\ UNCHANGED <<wcfg, wclock, arrived, requests_dir, processed_dir,
                       failed_dir, reports, last_retrain, last_promotion,
                       trained, loopPc, reqs, iter, lastProm>>

ScriptRun == \E fault \in ScriptFaults, torn \in BOOLEAN : PromoteRollback(fault, torn)

NextRollback ==
    \/ NextWorker
    \/ ScriptRun

\* the worker has an ACTIVE version, whole cooldowns and auto_promote; the
\* first request has failed before anything was written
InitRollback ==
    /\ ServeIdle /\ RaceIdle /\ ShadowIdle /\ MoreIdle
    /\ BundleIdle /\ activePtr = NoFile /\ versionsOk = {}
    /\ EmitIdle
    /\ CallIdle
    /\ TriggerIdle
    /\ DriftIdle
    /\ WorkerNew
    /\ wcfg = [retrain_cooldown |-> Unit, promote_cooldown |-> Unit,
               auto_promote |-> TRUE]
    /\ arrived = 1
    /\ requests_dir = {}
    /\ processed_dir = {}
    /\ failed_dir = {1}
    /\ reports = {}
    /\ ptr = [active |-> FirstVersion, shadow |-> NoPointer, rollback |-> NoPointer]
    /\ last_retrain = NoStamp
    /\ last_promotion = [ts |-> NoStamp, active_version |-> NoPointer]

SpecRollback == InitRollback /\ [][NextRollback]_vars

\* the script has run since the worker last trained a candidate
RanSinceTraining == rbk.total > 0 /\ rbk.at = trained

\* C35: a completed run of promote.py --rollback right after the worker
\* promoted c over a leaves ACTIVE naming a and ROLLBACK naming c; and two
\* completed runs in a row from a state with both pointers set leave the pair
\* (ACTIVE, ROLLBACK) as it was
C35_RollbackRoundTrip ==
    /\ [][ (rbk'.total = rbk.total + 1 /\ rbk'.exit = "ok"
              /\ iter.promoted /\ ~RanSinceTraining)
            => /\ ptr'.active = lastProm.from
               /\ ptr'.rollback = lastProm.to
         ]_vars
    /\ []( (rbk.runs = 2 /\ rbk.at = trained
              /\ rbk.start.active # NoPointer /\ rbk.start.rollback # NoPointer)
            => Pair(ptr) = rbk.start )

\* two completed runs after a promotion: the pointers are back at the pair
\* the promotion left
C35_Witness ==
    /\ rbk.runs = 2 /\ rbk.at = trained
    /\ iter.promoted
    /\ ptr.active = lastProm.to
    /\ ptr.rollback = lastProm.from
    /\ ptr.active # ptr.rollback

-----------------------------------------------------------------------------
(* scripts/watcher.py: the loop of main for as long as it runs.  The clock
   does not stop: once it has reached MaxWorkerTime, a further half second
   moves every stamp back by one instead, and a stamp that is already
   MaxWorkerTime old stays there (no cooldown is longer than that). *)

\* a stamp one half second older, relative to the clock
Older(ts) == IF ts > 0 THEN ts - 1 ELSE ts

TimePasses ==
    /\ UNCHANGED outsideWorker
    /\ IF wclock < MaxWorkerTime
       THEN /\ wclock' = wclock + 1
            /\ UNCHANGED <<last_retrain, last_promotion, lastProm>>
       ELSE /\ wclock' = wclock
            /\ last_retrain' = Older(last_retrain)
            /\ last_promotion' = [last_promotion EXCEPT !.ts = Older(@)]
            /\ lastProm' = [lastProm EXCEPT !.ts = Older(@)]
    /\ UNCHANGED <<wcfg, arrived, requests_dir, processed_dir, failed_dir,
                   reports, ptr, trained, loopPc, reqs, iter>>

\* what a handled request can do to the queue and to last_retrain.json: the
\* handling completes (stamp written, file to processed/), raises before the
\* stamp is written, or raises in the write of the stamp
QueueFaults == {"none", "prepare", "retrain_stamp"}

\* avg_cost_per_txn of a candidate that the promotion gate refuses
RefusedCost == BaselineCost + MaxCostIncrease + 1

\* the iteration handles reqs[0], and the file leaves the queue
QueueHandle ==
    \E fault \in QueueFaults, torn \in BOOLEAN :
        Handle(fault, torn, RefusedCost, TRUE)

\* the handling raises and the move to failed/ raises too: the file is still
\* pending at the next iteration
QueueHandleLeft ==
    /\ trained < MaxArrivals
    /\ \E fault \in QueueFaults \ {"none"}, torn \in BOOLEAN :
          Handle(fault, torn, RefusedCost, FALSE)

InitQueue ==
    /\ InitWorker
    /\ wcfg = [retrain_cooldown |-> Unit, promote_cooldown |-> Unit,
               auto_promote |-> TRUE]

NextQueue ==
    \/ Arrive
    \/ TimePasses
    \/ LoopList
    \/ LoopCooldown
    \/ QueueHandle
    \/ QueueHandleLeft
    \/ LoopDrop

\* the loop keeps running (each statement is reached after the sleep before
\* it), time.time() keeps advancing, and a move to failed/ that raised does
\* not raise at every later attempt
QueueFairness ==
    /\ WF_vars(LoopList)
    /\ WF_vars(LoopCooldown)
    /\ SF_vars(QueueHandle)
    /\ WF_vars(LoopDrop)
    /\ WF_vars(TimePasses)

SpecQueue == InitQueue /\ [][NextQueue]_vars /\ QueueFairness

RequestNames == 1 .. MaxArrivals

-----------------------------------------------------------------------------
(* drift/detector.py: how soon update_and_score recomputes (SpecDrift) *)

\* the number of rows the warm-up test asks for
RowsWanted == Max(WarmupRows, stride)

\* C37 (as claimed): with window_size >= 1 and stride >= 1 the detector has
\* recomputed by the call that ingests row number max(100, stride), and from
\* then on fewer than stride rows have come in since the last recomputation
C37_DetectorLiveness ==
    (window_size >= 1 /\ stride >= 1 /\ ingested >= RowsWanted)
        => rowsSince < stride

-----------------------------------------------------------------------------
(* drift/retrain.py: on_drift_update called by several request threads on the
   one RetrainTrigger of the process.  /predict is a plain `def`, so requests
   run on the threads of the server's pool, and nothing locks the trigger;
   each read and each write of self._hard_hits is a step of its own. *)

MaxTriggerCalls == 4   \* calls of on_drift_update in one run

outsideHits == <<bundleVars, emitVars, driftVars, callVars, serveVars, raceVars,
                 workerVars, shadowVars, scriptVars, startVars>>

HitGoto(t, to) == hPc' = [hPc EXCEPT ![t] = to]

\* the call begins: `if drift_score >= self.hard_thr:`
HitBegin(t, drift_score) ==
    /\ UNCHANGED outsideHits
    /\ hPc[t] = "idle"
    /\ hDone.calls < MaxTriggerCalls
    /\ HitGoto(t, IF drift_score >= hard_thr THEN "load" ELSE "zero")
    /\ hDone' = [hDone EXCEPT !.calls = @ + 1,
                              !.hard = IF drift_score >= hard_thr THEN @ + 1 ELSE @,
                              !.low = @ \/ drift_score < hard_thr]
    /\ hLoc' = [hLoc EXCEPT ![t] = NoHitsRead]
    /\ UNCHANGED triggerVars

\* self._hard_hits += 1 : the read
HitLoad(t) ==
    /\ UNCHANGED outsideHits
    /\ hPc[t] = "load"
    /\ hLoc' = [hLoc EXCEPT ![t].hits = _hard_hits]
    /\ HitGoto(t, "store")
    /\ UNCHANGED <<triggerVars, hDone>>

\* self._hard_hits += 1 : the write
HitStore(t) ==
    /\ UNCHANGED outsideHits
    /\ hPc[t] = "store"
    /\ _hard_hits' = hLoc[t].hits + 1
    /\ HitGoto(t, "test")
    /\ UNCHANGED <<required_hard_windows, trig, tHist, hLoc, hDone>>

\* `else: self._hard_hits = 0`
HitZero(t) ==
    /\ UNCHANGED outsideHits
    /\ hPc[t] = "zero"
    /\ _hard_hits' = 0
    /\ HitGoto(t, "test")
    /\ UNCHANGED <<required_hard_windows, trig, tHist, hLoc, hDone>>

\* `if self._hard_hits >= self.required_hard_windows:`, and the return of a
\* call that does not trigger
HitTest(t) ==
    /\ UNCHANGED outsideHits
    /\ hPc[t] = "test"
    /\ IF _hard_hits >= required_hard_windows
       THEN /\ HitGoto(t, "reason")
            /\ UNCHANGED trig
       ELSE /\ HitGoto(t, "idle")
            /\ trig' = [triggered |-> FALSE, reason |-> 0]
    /\ UNCHANGED <<required_hard_windows, _hard_hits, tHist, hLoc, hDone>>

\* reason = f"HARD_DRIFT_{self._hard_hits}_WINDOWS"
HitReason(t) ==
    /\ UNCHANGED outsideHits
    /\ hPc[t] = "reason"
    /\ hLoc' = [hLoc EXCEPT ![t].reason = _hard_hits]
    /\ HitGoto(t, "reset")
    /\ UNCHANGED <<triggerVars, hDone>>

\* `self._hard_hits = 0` and the return of a call that triggers
HitReset(t) ==
    /\ UNCHANGED outsideHits
    /\ hPc[t] = "reset"
    /\ _hard_hits' = AfterTrigger(_hard_hits)
    /\ trig' = [triggered |-> TRUE, reason |-> hLoc[t].reason]
    /\ hDone' = [hDone EXCEPT !.triggered = @ + 1]
    /\ HitGoto(t, "idle")
    /\ UNCHANGED <<required_hard_windows, tHist, hLoc>>

InitHits ==
    /\ ServeIdle /\ RaceIdle /\ WorkerIdle /\ ShadowIdle /\ ScriptIdle /\ StartIdle
    /\ BundleIdle /\ activePtr = NoFile /\ versionsOk = {}
    /\ EmitIdle
    /\ DriftIdle
    /\ CallIdle
    /\ required_hard_windows \in RequiredWindows
    /\ TriggerNew
    /\ HitsIdle

NextHits ==
    \/ \E t \in EThreads, score \in {soft_thr, hard_thr} : HitBegin(t, score)
    \/ \E t \in EThreads : HitLoad(t)
    \/ \E t \in EThreads : HitStore(t)
    \/ \E t \in EThreads : HitZero(t)
    \/ \E t \in EThreads : HitTest(t)
    \/ \E t \in EThreads : HitReason(t)
    \/ \E t \in EThreads : HitReset(t)

SpecHits == InitHits /\ [][NextHits]_vars

\* no thread is inside on_drift_update
NoCallRunning == \A t \in EThreads : hPc[t] = "idle"

\* C38 (as claimed): under every interleaving of on_drift_update calls the
\* counter stays within 0 .. required_hard_windows; and when every call so far
\* was a hard one, no increment is lost and each run of required_hard_windows
\* of them has given exactly one triggered=true
C38_TriggerUnderConcurrency ==
    /\ _hard_hits \in 0 .. required_hard_windows
    /\ (NoCallRunning /\ ~hDone.low) =>
          /\ hDone.triggered = hDone.hard \div required_hard_windows
          /\ _hard_hits = hDone.hard % required_hard_windows

-----------------------------------------------------------------------------
(* modeling/predict.py: get_shadow called again and again while the SHADOW
   pointer and the version directories change between the calls, next to
   get_active calls and one rewrite of the ACTIVE pointer *)

NextSticky ==
    \/ \E t \in Threads, c \in PointerContents : ShadowCall(t, c)
    \/ \E v \in Versions : EnvSetVersionDir(v)
    \/ \E t \in Threads : PredictBegin(t)
    \/ \E t \in Threads : ReadPointer(t)
    \/ \E t \in Threads : LoadBundle(t)
    \/ SwapWriteOpen
    \/ SaveJsonClose

SpecSticky == InitSwap /\ [][NextSticky]_vars

\* the step is a call of get_shadow
ShadowCalled == result' # result /\ result'.fn = "get_shadow"

\* the SHADOW pointer is missing, empty or corrupt, or names a version that
\* does not load
ShadowPointerUseless(c, dirs) ==
    \/ PointerNamesNothing(c)
    \/ c.kind = "nonobject"
    \/ c.kind = "object" /\ Strip(c.value) \notin dirs

\* C40 (as claimed): get_shadow never raises; once a shadow bundle is loaded,
\* a call that finds the SHADOW pointer deleted, emptied or corrupted, or
\* naming a version that does not load, returns the last loaded shadow bundle
\* and keeps it; and a call returns None only when no shadow bundle has been
\* loaded
C40_ShadowSticky ==
    [][ ShadowCalled =>
          /\ ~result'.raised
          /\ (_shadow_bundle # NoBundle
                 /\ ShadowPointerUseless(result'.read, versionsOk))
                => /\ result'.out = _shadow_bundle
                   /\ _shadow_bundle' = _shadow_bundle
                   /\ _shadow_version' = _shadow_version
          /\ result'.out = NoBundle => _shadow_bundle = NoBundle
      ]_vars

-----------------------------------------------------------------------------
(* api/main.py: lifespan, _require_runtime and the endpoints that begin with
   it.  app.state.manager, retrain_trigger and emitter are assigned together
   at the end of the try of lifespan and nowhere else: phase = "ready" stands
   for the three being set.  Requests are served once lifespan has yielded. *)

\* a _require_runtime that lets every request through
HasRuntime_Ignored(ph) == TRUE

\* _require_runtime does not raise: none of manager, trigger, emitter is None
HasRuntime(ph) == ph = "ready"

\* app.state.ready: what lifespan left, unless /ready has assigned it since
AppReady == IF readySet = "none" THEN phase = "ready" ELSE readySet = "true"

\* get_active on a pointer file whose content is c during the whole call
GetActive(c, dirs, cachedBundle, cachedVersion, id) ==
    LET r == ReadPointerValue(c, 0)
        l == LoadVersionedBundle(r.version, dirs, id)
        kept(o) == [raised |-> o.outcome = "raise", ret |-> o.bundle,
                    bundle |-> cachedBundle, version |-> cachedVersion,
                    fresh |-> FALSE]
    IN  IF r.res = "raise"
        THEN kept([outcome |-> "raise", bundle |-> NoBundle])
        ELSE IF r.version = NoVersion THEN kept(OnInvalidPointer(cachedBundle))
        ELSE IF IsCachedVersion(cachedBundle, cachedVersion, r.version)
        THEN kept([outcome |-> "bundle", bundle |-> cachedBundle])
        ELSE IF l.ok
        THEN [raised |-> FALSE, ret |-> l.bundle,
              bundle |-> SwapTo(l.bundle, r.version).bundle,
              version |-> SwapTo(l.bundle, r.version).version, fresh |-> TRUE]
        ELSE kept(OnLoadFailure(cachedBundle))

\* what the endpoints of this part leave alone
outsideStart == <<emitVars, driftVars, callVars, triggerVars, serveVars, raceVars,
                  workerVars, scriptVars, hitVars>>

\* lifespan: validate_cors_origins, BundleManager(...) or validate_config
\* raises; the except clause records the error and lifespan yields
BootInvalid ==
    /\ UNCHANGED <<outsideStart, shadowVars, startVars>>
    /\ phase = "booting"
    /\ pc[Lifespan] = "idle"
    /\ phase' = "failed"
    /\ UNCHANGED <<activePtr, versionsOk, writerPc, writerOld, writerNew,
                   _active_version, _active_bundle, lockHolder, loadCount,
                   lastLoaded, pc, attempt, ver, pre, seen, ret, http>>

\* GET /health
Health ==
    /\ UNCHANGED <<outsideStart, shadowVars, bundleVars, readySet>>
    /\ phase # "booting"
    /\ probe' = [endpoint |-> "/health", status |-> 200, ready |-> AppReady]

\* GET /ready; c is the content of the SHADOW pointer
Ready(c) ==
    /\ UNCHANGED outsideStart
    /\ phase # "booting"
    /\ IF ~HasRuntime(phase)
       THEN /\ probe' = [endpoint |-> "/ready", status |-> 200, ready |-> FALSE]
            /\ UNCHANGED <<bundleVars, shadowVars, readySet>>
       ELSE LET a == GetActive(activePtr, versionsOk, _active_bundle,
                               _active_version, loadCount + 1)
                g == GetShadow(c, versionsOk, _shadow_bundle, _shadow_version)
                ok == ~a.raised /\ ~g.raised
            IN  /\ LockFree(lockHolder)
                /\ loadCount < MaxLoads
                /\ _active_bundle' = a.bundle
                /\ _active_version' = a.version
                /\ loadCount' = IF a.fresh THEN loadCount + 1 ELSE loadCount
                /\ lastLoaded' = IF a.fresh THEN a.version ELSE lastLoaded
                /\ IF a.raised
                   THEN UNCHANGED <<_shadow_bundle, _shadow_version, shadowRows>>
                   ELSE /\ _shadow_bundle' = g.bundle
                        /\ _shadow_version' = g.version
                        /\ shadowRows' = IF g.fresh THEN 0 ELSE shadowRows
                /\ readySet' = IF ok THEN "true" ELSE "false"
                /\ probe' = [endpoint |-> "/ready", status |-> 200, ready |-> ok]
                /\ UNCHANGED <<activePtr, versionsOk, writerPc, writerOld,
                               writerNew, lockHolder, pc, attempt, ver, pre, seen,
                               ret, phase, http, SHADOW_RUNS, SHADOW_DISAGREE,
                               serverRun, sent, obsShadowed, obsPlain, casesSeen>>

\* POST /retrain when _require_runtime raises
RetrainNoRuntime ==
    /\ UNCHANGED <<outsideStart, shadowVars, bundleVars, readySet>>
    /\ phase # "booting"
    /\ ~HasRuntime(phase)
    /\ probe' = [endpoint |-> "/retrain", status |-> 503, ready |-> FALSE]

\* GET /models/info when _require_runtime raises
ModelsInfoNoRuntime ==
    /\ UNCHANGED <<outsideStart, shadowVars, bundleVars, readySet>>
    /\ phase # "booting"
    /\ ~HasRuntime(phase)
    /\ probe' = [endpoint |-> "/models/info", status |-> 503, ready |-> FALSE]

NextStartup ==
    \/ Startup
    \/ BootInvalid
    \/ \E t \in Callers : ReadPointer(t)
    \/ \E t \in Callers : LoadBundle(t)
    \/ \E t \in Threads : PredictBegin(t)
    \/ \E t \in Threads : PredictNoRuntime(t)
    \/ Health
    \/ \E c \in SwapShadowPointers : Ready(c)
    \/ RetrainNoRuntime
    \/ ModelsInfoNoRuntime
    \/ \E c \in PointerContents : EnvSetPointer(c)
    \/ \E v \in Versions : EnvSetVersionDir(v)

SpecStartup == InitBundle /\ [][NextStartup]_vars

====
